---- MODULE Spec2Model ----
(***************************************************************************)
(* A model of mini_mlflow: the Run entity (run.py), the file-backed run    *)
(* store (storage.py) and the ExperimentTracker with its thread-local      *)
(* active-run slot and the module-level facade (tracker.py).               *)
(*                                                                         *)
(* One storage root (runs_dir) is modelled.  A directory of the store is   *)
(* {runs_dir}/{experiment_id}/{run_id}; its params/ and metrics/           *)
(* sub-directories are kept as the mapping key -> file content (a missing  *)
(* sub-directory and an empty one read the same in load_run).              *)
(* Python's None is the empty tuple, a present value x is <<x>>.           *)
(***************************************************************************)
EXTENDS Integers, Sequences, FiniteSets, TLC

\* ---------------------------------------------------------------- bounds
\* Number of Run objects a caller constructs directly with Run(...).
MaxRuns == 1
\* Number of Run objects that exist when a tracker or the facade starts one more.
MaxStarts == 2
\* Number of parameter and metric files in the store.
MaxFiles == 1
\* Number of filesystem failures in one behaviour.
MaxFaults == 1
\* Nesting depth of `with tracker` scopes in one thread.
MaxDepth == 1

\* ------------------------------------------------------------- input sets
Threads == {"t1", "t2"}
\* "global" is tracker.py's _global_tracker, "tr1" a tracker made by the caller.
Trackers == {"global", "tr1"}
RunIds == {"a", "b", "c"}
Experiments == {0, 1}
Names == {"m"}
\* A key is the sequence of its characters.
Keys == {<<"l", "r">>, <<"a", "/", "b">>}
\* Python scalars as logged values: a str is its characters, a float is
\* <<whole, tenths>> for whole.tenths.
PyStr(s) == [type |-> "str", v |-> s]
PyInt(n) == [type |-> "int", v |-> n]
PyFloat(w, f) == [type |-> "float", v |-> <<w, f>>]
PyBool(b) == [type |-> "bool", v |-> b]
Values == {PyInt(1)}
EndArgs == {"FINISHED", "FAILED", "INVALID"}
\* Outcome of the filesystem calls of one _atomic_write.
IoOutcomes == {"ok", "fail_mkdir", "fail_write"}

None == <<>>
Some(x) == <<x>>
Opt(S) == {None} \cup {Some(x) : x \in S}

Objs == 1..(IF MaxRuns > MaxStarts THEN MaxRuns ELSE MaxStarts)
\* The instants the clock shows (datetime.utcnow() and the mtime of a file).
Times == {0, 1}

VARIABLES
    runs,      \* Run objects: obj -> None (not constructed) or Some(fields)
    store,     \* the filesystem under runs_dir: <<experiment_id, run_id>> -> directory
    active,    \* tracker.py _active_run (threading.local): thread -> None or Some(obj)
    current,   \* ExperimentTracker._current_run: tracker -> None or Some(obj)
    trk_eid,   \* ExperimentTracker.experiment_id: tracker -> experiment id
    tscope,    \* open `with tracker` scopes of a thread: a stack of [tracker, obj]
    now,       \* the last reading of the clock (datetime.utcnow(), file mtimes)
    faults,    \* the filesystem failures so far
    last       \* the outcome of the last call: "ok" or the error it raised

\* One directory of files (the params/ directory of one run) as the threads
\* inside _atomic_write see it, one filesystem call at a time.
VARIABLES
    pdir,      \* the directory exists
    links,     \* the directory's entries: path -> None or Some(inode)
    inodes,    \* inode -> the content of the file, a sequence of blocks
    wr,        \* writer thread -> its position in _atomic_write and its locals
    hist,      \* writer thread -> what is recorded about its call (history)
    seen       \* what the last read of a file by a reader returned

writeVars == <<pdir, links, inodes, wr, hist, seen>>
\* What the last call of a storage function returned (None when it returned
\* nothing or raised).
VARIABLES result
\* The version entry of the meta.yaml of each run directory: None where the
\* file has none or says null.
VARIABLES versions
\* The call a thread is inside of, where a call is taken statement by
\* statement: None when the thread is between calls.
VARIABLES calls
\* The state of the Run objects, the store and the trackers, without faults.
runVars == <<runs, store, active, current, trk_eid, tscope, now, last>>
vars == <<runVars, faults, writeVars, result, versions, calls>>

\* ------------------------------------------------------------ storage.py

SlashChars == {"/", "\\"}
InvalidChars == {"<", ">", ":", "\"", "|", "?", "*"}

\* Variant: every key is accepted.
AnyKey(key) == "ok"
\* _validate_key: "ok", or the ValueError it raises (InvalidKey).
ValidateKey(key) ==
    IF key = <<>> THEN "InvalidKey"
    ELSE IF \E i \in 1..Len(key) : key[i] \in SlashChars THEN "InvalidKey"
    ELSE IF key \in {<<".">>, <<".", ".">>} THEN "InvalidKey"
    ELSE IF \E i \in 1..Len(key) : key[i] \in InvalidChars THEN "InvalidKey"
    ELSE "ok"

\* A run directory that was never created.
NoDir == [exists |-> FALSE, meta |-> None, mtime |-> None,
          params |-> <<>>, metrics |-> <<>>]

\* _get_run_dir: the directory of a run under the storage root.
GetRunDir(run_id, experiment_id) == <<experiment_id, run_id>>

\* _ensure_directory on the parent of a file of run directory d.
EnsureDirectory(st, d) == [st EXCEPT ![d].exists = TRUE]

\* Variant: a file that exists is left as it is.
KeepFile(files, name, content) ==
    [k \in (DOMAIN files) \cup {name} |-> IF k \in DOMAIN files THEN files[k] ELSE content]
\* The files of a directory are a mapping from file name to content.
PutFile(files, name, content) ==
    [k \in (DOMAIN files) \cup {name} |-> IF k = name THEN content ELSE files[k]]

\* f"{key}.json": the file name of a key, character by character.
JsonSuffix == <<".", "j", "s", "o", "n">>
JsonName(key) == key \o JsonSuffix
\* Path.stem: the name up to its last dot, the whole name when the only dot
\* leads or ends it or there is none.
LastDot(name) ==
    IF \E i \in 1..Len(name) : name[i] = "."
    THEN CHOOSE i \in 1..Len(name) : name[i] = "." /\ \A j \in (i + 1)..Len(name) : name[j] # "."
    ELSE 0
Stem(name) ==
    IF 1 < LastDot(name) /\ LastDot(name) < Len(name)
    THEN SubSeq(name, 1, LastDot(name) - 1)
    ELSE name
\* dir.glob("*.json"): the names that end in .json.
GlobJson(files) ==
    {n \in DOMAIN files :
        /\ Len(n) >= Len(JsonSuffix)
        /\ SubSeq(n, Len(n) - Len(JsonSuffix) + 1, Len(n)) = JsonSuffix}

\* Variant: a rewritten meta.yaml keeps the modification time it had.
ReplaceKeepingMTime(st, d, path, content, t) ==
    IF path[1] = "meta.yaml"
    THEN [st EXCEPT ![d].meta = Some(content),
                    ![d].mtime = IF @ = None THEN Some(t) ELSE @]
    ELSE IF path[1] = "params"
    THEN [st EXCEPT ![d].params = PutFile(@, path[2], content)]
    ELSE [st EXCEPT ![d].metrics = PutFile(@, path[2], content)]
\* temp_file.replace(file_path): the target gets the whole content at once.
ReplaceTarget(st, d, path, content, t) ==
    IF path[1] = "meta.yaml"
    THEN [st EXCEPT ![d].meta = Some(content), ![d].mtime = Some(t)]
    ELSE IF path[1] = "params"
    THEN [st EXCEPT ![d].params = PutFile(@, path[2], content)]
    ELSE [st EXCEPT ![d].metrics = PutFile(@, path[2], content)]

\* _atomic_write as one step.  io is what the filesystem does: "fail_mkdir"
\* raises in _ensure_directory, "fail_write" raises while the temporary file is
\* written or renamed (the temporary file is unlinked, the target is untouched).
AtomicWrite(st, d, path, content, io, t) ==
    IF io = "fail_mkdir" THEN st
    ELSE IF io = "fail_write" THEN EnsureDirectory(st, d)
    ELSE ReplaceTarget(EnsureDirectory(st, d), d, path, content, t)

IoResult(io) == IF io = "ok" THEN "ok" ELSE "IOFailure"

\* yaml.dump / yaml.safe_load of one scalar: None is written as null, a string
\* (quoted by the dumper when it would read as another type) as a str node,
\* an int as an int node.
YamlDumpStr(s) == <<"str", s>>
YamlDumpInt(n) == <<"int", n>>
YamlDumpOptStr(o) == IF o = None THEN <<"null">> ELSE <<"str", o[1]>>
YamlLoadScalar(y) == IF y[1] = "null" THEN None ELSE Some(y[2])

\* yaml.dump(metadata, sort_keys=False) of the mapping save_metadata builds.
YamlDump(m) ==
    [name |-> YamlDumpOptStr(m.name),
     status |-> YamlDumpStr(m.status),
     start_time |-> YamlDumpStr(m.start_time),
     end_time |-> YamlDumpOptStr(m.end_time),
     run_id |-> YamlDumpStr(m.run_id),
     experiment_id |-> YamlDumpInt(m.experiment_id)]

\* yaml.safe_load: every key maps to None or to the scalar's value.
YamlLoad(y) == [k \in DOMAIN y |-> YamlLoadScalar(y[k])]

\* Variant: run_id and experiment_id are written only where the caller's
\* mapping has no such entry.
SaveMetadataAsGiven(st, run_id, experiment_id, metadata, io, t) ==
    LET md == metadata @@ ("run_id" :> run_id) @@ ("experiment_id" :> experiment_id)
    IN  AtomicWrite(st, GetRunDir(run_id, experiment_id), <<"meta.yaml">>,
                    YamlDump(md), io, t)

\* save_metadata: run_id and experiment_id are forced into a copy of metadata.
SaveMetadata(st, run_id, experiment_id, metadata, io, t) ==
    LET md == ("run_id" :> run_id) @@ ("experiment_id" :> experiment_id) @@ metadata
    IN  AtomicWrite(st, GetRunDir(run_id, experiment_id), <<"meta.yaml">>,
                    YamlDump(md), io, t)

\* save_metadata as a call: [res, store, metadata], metadata being the caller's
\* mapping after the call.  Line 177 rebinds the parameter to a copy, so the
\* two assignments that follow do not reach the caller's mapping.
SaveMetadataCall(st, run_id, experiment_id, metadata, io, t) ==
    [res |-> IoResult(io),
     store |-> SaveMetadata(st, run_id, experiment_id, metadata, io, t),
     metadata |-> metadata]

\* The decimal digits and the decimal numeral of a natural number.
DigitChars == <<"0", "1", "2", "3", "4", "5", "6", "7", "8", "9">>
RECURSIVE Decimal(_)
Decimal(n) ==
    IF n < 10 THEN <<DigitChars[n + 1]>>
    ELSE Decimal(n \div 10) \o <<DigitChars[(n % 10) + 1]>>
DigitValue(c) == CHOOSE d \in 0..9 : DigitChars[d + 1] = c
RECURSIVE ParseNat(_)
ParseNat(s) ==
    IF s = <<>> THEN 0
    ELSE ParseNat(SubSeq(s, 1, Len(s) - 1)) * 10 + DigitValue(s[Len(s)])
\* Position of the first c in s, 0 when there is none.
Find(s, c) ==
    IF \E i \in 1..Len(s) : s[i] = c
    THEN CHOOSE i \in 1..Len(s) : s[i] = c /\ \A j \in 1..(i - 1) : s[j] # c
    ELSE 0

\* json.dumps of a scalar.  A str is written between quotes with the quote and
\* the backslash escaped; a bool as true or false; an int by int.__repr__; a
\* float by float.__repr__, which always writes a fraction part.
\* Variant: a str is written without escapes.
NoEscape(s) == s
RECURSIVE JsonEscape(_)
JsonEscape(s) ==
    IF s = <<>> THEN <<>>
    ELSE (IF Head(s) \in {"\"", "\\"} THEN <<"\\", Head(s)>> ELSE <<Head(s)>>)
         \o JsonEscape(Tail(s))
IntRepr(n) == IF n < 0 THEN <<"-">> \o Decimal(0 - n) ELSE Decimal(n)
FloatRepr(x) == IntRepr(x[1]) \o <<".">> \o Decimal(x[2])
JsonEncode(v) ==
    CASE v.type = "str" -> <<"\"">> \o JsonEscape(v.v) \o <<"\"">>
      [] v.type = "bool" -> IF v.v THEN <<"t", "r", "u", "e">> ELSE <<"f", "a", "l", "s", "e">>
      [] v.type = "int" -> IntRepr(v.v)
      [] v.type = "float" -> FloatRepr(v.v)

\* json.load of a scalar: the decoder goes by the first character, and a number
\* with a fraction part is a float, one without is an int.
RECURSIVE JsonUnescape(_)
JsonUnescape(s) ==
    IF s = <<>> THEN <<>>
    ELSE IF Head(s) = "\\" THEN <<s[2]>> \o JsonUnescape(SubSeq(s, 3, Len(s)))
    ELSE <<Head(s)>> \o JsonUnescape(Tail(s))
ParseInt(s) == IF Head(s) = "-" THEN 0 - ParseNat(Tail(s)) ELSE ParseNat(s)
JsonDecode(text) ==
    IF Head(text) = "\"" THEN PyStr(JsonUnescape(SubSeq(text, 2, Len(text) - 1)))
    ELSE IF text = <<"t", "r", "u", "e">> THEN PyBool(TRUE)
    ELSE IF text = <<"f", "a", "l", "s", "e">> THEN PyBool(FALSE)
    ELSE IF Find(text, ".") # 0
    THEN PyFloat(ParseInt(SubSeq(text, 1, Find(text, ".") - 1)),
                 ParseNat(SubSeq(text, Find(text, ".") + 1, Len(text))))
    ELSE PyInt(ParseInt(text))

\* json.dumps / json.load of the record {"value": ..., "timestamp": ...}: the
\* object with the text of each member.
JsonDumps(data) == [k \in DOMAIN data |-> JsonEncode(data[k])]
JsonLoad(text) == [k \in DOMAIN text |-> JsonDecode(text[k])]

\* datetime.utcnow().isoformat() + "Z"
Timestamp(t) == PyStr(Decimal(t) \o <<"Z">>)

\* Variant: a save_param that also rewrites the metadata file as it is.
SaveParamAndTouch(st, run_id, experiment_id, key, value, io, t) ==
    IF ValidateKey(key) # "ok"
    THEN [res |-> ValidateKey(key), store |-> st]
    ELSE LET d == GetRunDir(run_id, experiment_id)
             w == AtomicWrite(st, d, <<"params", JsonName(key)>>,
                              JsonDumps([value |-> value, timestamp |-> Timestamp(t)]), io, t)
         IN  [res |-> IoResult(io),
              store |-> IF io = "ok" /\ w[d].meta # None
                        THEN [w EXCEPT ![d].mtime = Some(t)] ELSE w]

\* save_param: [res, store].
SaveParam(st, run_id, experiment_id, key, value, io, t) ==
    IF ValidateKey(key) # "ok"
    THEN [res |-> ValidateKey(key), store |-> st]
    ELSE [res |-> IoResult(io),
          store |-> AtomicWrite(st, GetRunDir(run_id, experiment_id),
                                <<"params", JsonName(key)>>,
                                JsonDumps([value |-> value, timestamp |-> Timestamp(t)]), io, t)]

\* save_metric: [res, store].
SaveMetric(st, run_id, experiment_id, key, value, io, t) ==
    IF ValidateKey(key) # "ok"
    THEN [res |-> ValidateKey(key), store |-> st]
    ELSE [res |-> IoResult(io),
          store |-> AtomicWrite(st, GetRunDir(run_id, experiment_id),
                                <<"metrics", JsonName(key)>>,
                                JsonDumps([value |-> value, timestamp |-> Timestamp(t)]), io, t)]

\* load_run, lines 222-229 and 232-238: for every *.json file of the directory,
\* the stem of its name is the key and the "value" member of its content is the
\* value (two files of one stem cannot be: the names differ in the stem only).
LoadValues(files) ==
    [k \in {Stem(n) : n \in GlobJson(files)} |->
        JsonLoad(files[CHOOSE n \in GlobJson(files) : Stem(n) = k]).value]

\* A load_run that takes a run without meta.yaml for a missing run.
LoadRunNeedingMeta(st, run_id, experiment_id) ==
    LET dir == st[GetRunDir(run_id, experiment_id)]
    IN  IF ~dir.exists \/ dir.meta = None THEN None
        ELSE Some([metadata |-> YamlLoad(dir.meta[1]),
                   params |-> LoadValues(dir.params),
                   metrics |-> LoadValues(dir.metrics)])

\* load_run: None for FileNotFoundError, else Some of the loaded mapping.
LoadRun(st, run_id, experiment_id) ==
    LET dir == st[GetRunDir(run_id, experiment_id)]
    IN  IF ~dir.exists THEN None
        ELSE Some([metadata |-> IF dir.meta = None THEN <<>> ELSE YamlLoad(dir.meta[1]),
                   params |-> LoadValues(dir.params),
                   metrics |-> LoadValues(dir.metrics)])

\* list_runs, line 256: the experiment directory exists once a run directory
\* was made under it.
ExperimentExists(st, experiment_id) ==
    \E d \in DOMAIN st : d[1] = experiment_id /\ st[d].exists
\* Variant: every run directory is listed, with or without a meta.yaml.
AllRunDirs(st, experiment_id) ==
    {d[2] : d \in {x \in DOMAIN st : x[1] = experiment_id /\ st[x].exists}}
\* Lines 260-262: the run directories that hold a meta.yaml.
RunDirs(st, experiment_id) ==
    {d[2] : d \in {x \in DOMAIN st : /\ x[1] = experiment_id
                                     /\ st[x].exists
                                     /\ st[x].meta # None}}
\* st_mtime of the meta.yaml of a run.
MTime(st, experiment_id, rid) == st[GetRunDir(rid, experiment_id)].mtime[1]
\* The sequences that hold each element of S once.
Orders(S) ==
    {s \in [1..Cardinality(S) -> S] : \A x \in S : \E i \in 1..Cardinality(S) : s[i] = x}
\* Variant: the list is not sorted.
AnyOrder(st, experiment_id, s) == TRUE
\* Line 265, runs.sort(key=mtime, reverse=True): no run stands before one of
\* a later modification time.
SortedByMTime(st, experiment_id, s) ==
    \A i, j \in 1..Len(s) :
        i < j => MTime(st, experiment_id, s[i]) >= MTime(st, experiment_id, s[j])
\* Variant: the runs of every experiment are listed.
ListRunsEverywhere(st, experiment_id) ==
    Orders({d[2] : d \in {x \in DOMAIN st : st[x].exists /\ st[x].meta # None}})
\* Variant: the sort is not reversed, the oldest run comes first.
ListRunsOldestFirst(st, experiment_id) ==
    IF ~ExperimentExists(st, experiment_id) THEN {<<>>}
    ELSE {s \in Orders(RunDirs(st, experiment_id)) :
              \A i, j \in 1..Len(s) :
                  i < j => MTime(st, experiment_id, s[i]) <= MTime(st, experiment_id, s[j])}
\* list_runs: the lists it can return.  The sort is stable, so runs of equal
\* modification time stay in the order iterdir gave them, which is any order.
ListRuns(st, experiment_id) ==
    IF ~ExperimentExists(st, experiment_id) THEN {<<>>}
    ELSE {s \in Orders(RunDirs(st, experiment_id)) : SortedByMTime(st, experiment_id, s)}

\* ---------------------------------------------------------------- run.py

\* Run.__init__, lines 44-50: the fields of a new Run.
NewRun(run_id, experiment_id, name, t) ==
    [run_id |-> run_id, experiment_id |-> experiment_id, name |-> name,
     status |-> "RUNNING", start_time |-> t, end_time |-> None]

\* Variants of _save_metadata: one that writes nothing, one that always writes
\* end_time as null.
SkipSave(st, r, io, t) == st
SaveWithoutEndTime(st, r, io, t) ==
    SaveMetadata(st, r.run_id, r.experiment_id,
                 [name |-> r.name, status |-> r.status,
                  start_time |-> r.start_time, end_time |-> None], io, t)

\* Run._save_metadata.
RunSaveMetadata(st, r, io, t) ==
    SaveMetadata(st, r.run_id, r.experiment_id,
                 [name |-> r.name, status |-> r.status,
                  start_time |-> r.start_time, end_time |-> r.end_time], io, t)

\* Variant: a failure of the first metadata write is swallowed.
RunInitCallSwallowing(st, run_id, experiment_id, name, io, t) ==
    LET r == NewRun(run_id, experiment_id, name, t)
    IN  [res |-> "ok", run |-> r, store |-> RunSaveMetadata(st, r, io, t)]

\* Run.__init__ as a call: [res, run, store]; on a failure no Run is returned.
RunInitCall(st, run_id, experiment_id, name, io, t) ==
    LET r == NewRun(run_id, experiment_id, name, t)
    IN  [res |-> IoResult(io), run |-> r, store |-> RunSaveMetadata(st, r, io, t)]

\* The outcome of a call is "ok" or the error it raises, named by the error of
\* the specification and, where several statements raise it, by the method.
InvalidState == {"InvalidState:log_param", "InvalidState:log_metric", "InvalidState:end"}
InvalidArgument == {"InvalidArgument:end"}
NoActiveRun == {"NoActiveRun:end_run", "NoActiveRun:log_param", "NoActiveRun:log_metric"}
\* The errors that are a Python ValueError.
ValueErrors == InvalidState \cup InvalidArgument \cup {"InvalidKey"}

\* A guard that lets every run through.
AnyRunState(r) == TRUE

\* The guard of log_param, log_metric and end: the run has not ended.
IsRunning(r) == r.status = "RUNNING"

\* Run.log_param: [res, store].
RunLogParamCall(st, r, key, value, io, t) ==
    IF ~IsRunning(r) THEN [res |-> "InvalidState:log_param", store |-> st]
    ELSE SaveParam(st, r.run_id, r.experiment_id, key, value, io, t)

\* log_metric without its guard.
SaveMetricOfRun(st, r, key, value, io, t) ==
    SaveMetric(st, r.run_id, r.experiment_id, key, value, io, t)

\* Run.log_metric: [res, store].
RunLogMetricCall(st, r, key, value, io, t) ==
    IF ~IsRunning(r) THEN [res |-> "InvalidState:log_metric", store |-> st]
    ELSE SaveMetric(st, r.run_id, r.experiment_id, key, value, io, t)

\* A status check that lets every status through.
AnyStatus(status) == TRUE

\* The status check of Run.end.
IsEndStatus(status) == status \in {"FINISHED", "FAILED"}

\* The assignment to status without the one to end_time.
MarkEndedStatusOnly(r, status, t) == [r EXCEPT !.status = status]

\* Run.end, lines 133-134: the assignments to status and end_time.
MarkEnded(r, status, t) == [r EXCEPT !.status = status, !.end_time = Some(t)]

\* end without the guard on the run's status.
RunEndCallUnguarded(st, r, status, io, t) ==
    IF ~IsEndStatus(status) THEN [res |-> "InvalidArgument:end", run |-> r, store |-> st]
    ELSE LET r2 == MarkEnded(r, status, t)
         IN  [res |-> IoResult(io), run |-> r2, store |-> RunSaveMetadata(st, r2, io, t)]

\* Run.end: [res, run, store].  The fields are assigned before the metadata is
\* saved, so they stay assigned when the save raises.
RunEndCall(st, r, status, io, t) ==
    IF ~IsRunning(r) THEN [res |-> "InvalidState:end", run |-> r, store |-> st]
    ELSE IF ~IsEndStatus(status) THEN [res |-> "InvalidArgument:end", run |-> r, store |-> st]
    ELSE LET r2 == MarkEnded(r, status, t)
         IN  [res |-> IoResult(io), run |-> r2, store |-> RunSaveMetadata(st, r2, io, t)]

\* Variant: __exit__ lets the ValueError of end() through.
RunExitCallRaising(st, r, exc, io, t) ==
    RunEndCall(st, r, IF exc THEN "FAILED" ELSE "FINISHED", io, t)

\* Run.__exit__: end(FAILED) or end(FINISHED), a ValueError of end is swallowed.
RunExitCall(st, r, exc, io, t) ==
    LET e == RunEndCall(st, r, IF exc THEN "FAILED" ELSE "FINISHED", io, t)
    IN  [e EXCEPT !.res = IF @ \in ValueErrors THEN "ok" ELSE @]


\* ------------------------------------------------------------- tracker.py

\* ExperimentTracker.run_name: the global tracker is ExperimentTracker(), the
\* caller's tracker is made with a default run name.
TrackerRunName(tr) == IF tr = "global" THEN None ELSE Some("m")

\* A slot that always reads empty.
EmptySlot(act, t) == None

\* A slot that is read without regard to the calling thread.
SomeSlot(act, t) ==
    IF \E u \in DOMAIN act : act[u] # None
    THEN act[CHOOSE u \in DOMAIN act : act[u] # None]
    ELSE None

\* _get_active_run / ExperimentTracker.active_run / facade active_run.
GetActiveRun(act, t) == act[t]

\* A slot shared by all threads.
SetEverySlot(act, t, run) == [u \in DOMAIN act |-> run]

\* _set_active_run: writes the calling thread's slot only.
SetActiveRun(act, t, run) == [act EXCEPT ![t] = run]

\* ------------------------------------------------------------ the state

Constructed == {o \in Objs : runs[o] # None}
\* The next Run object to be constructed.
NextObj == Cardinality(Constructed) + 1

\* uuid.uuid4().hex: an identifier no run and no directory has yet.
FreshIds ==
    {id \in RunIds : /\ \A o \in Constructed : runs[o][1].run_id # id
                     /\ \A e \in Experiments : ~store[GetRunDir(id, e)].exists}

\* run.py line 44: the caller's run_id, or a generated one (which of the unused
\* identifiers uuid4 returns makes no difference).
NewRunId(rid_opt) == IF rid_opt # None THEN rid_opt[1] ELSE CHOOSE id \in FreshIds : TRUE

\* The parameter and metric files of the store.
FilesOf(st) ==
    UNION {({d} \X {"params"} \X DOMAIN st[d].params)
              \cup ({d} \X {"metrics"} \X DOMAIN st[d].metrics) : d \in DOMAIN st}
Files == FilesOf(store)

\* A reading t of the clock is not before the last one; a call that fails
\* before it reads the clock leaves the last reading as it is.
ClockAfter(res, t) == IF res \in {"ok", "IOFailure"} THEN t ELSE now

\* The filesystem fails at most MaxFaults times; a failure counts when the call
\* reaches the filesystem.
FaultAllowed(io) == io # "ok" => faults < MaxFaults
FaultsAfter(res) == IF res = "IOFailure" THEN faults + 1 ELSE faults

\* Inputs of the storage functions when a client calls them directly: keys of
\* every class _validate_key tells apart, and values of every scalar type.
ValidKeys == {<<"l", "r">>, <<".", "a", ".">>}
BadKeys ==
    {<<>>, <<"a", "/", "b">>, <<"\\">>, <<".">>, <<".", ".">>}
        \cup {<<"k", c>> : c \in InvalidChars}
StoreKeys == ValidKeys \cup BadKeys
StoreValues ==
    {PyStr(<<"1">>), PyStr(<<"t", "r", "u", "e">>), PyStr(<<"\\", "\"">>),
     PyInt(1), PyInt(0 - 12), PyFloat(1, 0), PyFloat(0, 5), PyBool(TRUE), PyBool(FALSE)}
\* The values saved under a key that _validate_key refuses.
RefusedValues == {PyInt(1), PyStr(<<"1">>)}
\* The run whose records are saved, and a run that is only loaded.
StoreRuns == {"a"}
LoadRuns == {"a", "b"}
\* The file system under direct saves: the write succeeds or fails.
StoreIo == {"ok", "fail_write"}
\* Number of parameter and metric files direct saves create.
MaxSaved == 2
\* Last reading of the clock while runs are started, ended and listed.
MaxTime == 2
ListTimes == 0..MaxTime
\* The tracker whose runs are listed, and the file system that does not fail.
ListTrackers == {"global"}
ListIo == {"ok"}

\* The directory and the writer threads of _atomic_write, call by call.
\* Number of _atomic_write calls the writer threads make together.
MaxCalls == 2

Writers == {"w1", "w2"}
\* Keys of the files written, both valid.
WriteKeys == {<<"l", "r">>, <<"x">>}
\* The text of a file as the blocks in which the buffered writer hands it to
\* the operating system: a text larger than the buffer goes in several blocks.
Contents == {<<"a1", "a2">>, <<"b1">>}

\* params_dir / f"{key}.json": the name is the stem and the suffix.
ParamFile(key) == [stem |-> key, suffix |-> <<".json">>]
\* Variants: the file is written in place; all files share one temporary file.
InPlace(path) == path
OneTempFile(path) == [stem |-> <<"t">>, suffix |-> <<".tmp">>]
\* file_path.with_suffix(file_path.suffix + '.tmp')
TempFile(path) == [stem |-> path.stem, suffix |-> path.suffix \o <<".tmp">>]
Paths == {ParamFile(k) : k \in WriteKeys} \cup {TempFile(ParamFile(k)) : k \in WriteKeys}

Inodes == 1..(Cardinality(Paths) + Cardinality(Writers))
\* Block i of a file that was extended past its end without being written.
Hole == "hole"

\* A writer that is not inside _atomic_write.
Outside == {"idle", "returned", "raised"}
IdleWriter == [pc |-> "idle", path |-> None, content |-> <<>>, fd |-> None, off |-> 0,
               calls |-> 0]
\* History of a call: the target's content when the call began, whether
\* another writer was inside _atomic_write during the call (concurrent), on
\* the same path (overlap), and whether the filesystem failed in the call.
NoHist == [before |-> None, concurrent |-> FALSE, overlap |-> FALSE, injected |-> FALSE]

InitWrite ==
    /\ pdir = FALSE
    /\ links = [p \in Paths |-> None]
    /\ inodes = [i \in Inodes |-> <<>>]
    /\ wr = [w \in Writers |-> IdleWriter]
    /\ hist = [w \in Writers |-> NoHist]
    /\ seen = None

Init ==
    /\ runs = [o \in Objs |-> None]
    /\ store = [d \in Experiments \X RunIds |-> NoDir]
    /\ active = [t \in Threads |-> None]
    /\ current = [tr \in Trackers |-> None]
    /\ trk_eid = [tr \in Trackers |-> IF tr = "global" THEN 0 ELSE 1]
    /\ tscope = [t \in Threads |-> <<>>]
    /\ now = 0
    /\ faults = 0
    /\ last = "ok"
    /\ result = None
    /\ versions = [d \in Experiments \X RunIds |-> None]
    /\ calls = [t \in Threads |-> None]
    /\ InitWrite

\* ------------------------------------------------- calls on a Run object

\* run = Run(run_id, experiment_id, name)
RunInit(rid_opt, eid, name, io, t) ==
    /\ NextObj <= MaxRuns
    /\ t >= now
    /\ FaultAllowed(io)
    /\ rid_opt = None => FreshIds # {}
    /\ LET c == RunInitCall(store, NewRunId(rid_opt), eid, name, io, t)
       IN  /\ last' = c.res
           /\ store' = c.store
           /\ runs' = IF c.res = "ok" THEN [runs EXCEPT ![NextObj] = Some(c.run)] ELSE runs
           /\ now' = ClockAfter(c.res, t)
           /\ faults' = FaultsAfter(c.res)
    /\ UNCHANGED <<active, current, trk_eid, tscope>>
    /\ UNCHANGED <<writeVars, result, versions, calls>>

\* run.log_param(key, value)
RunLogParam(o, key, value, io, t) ==
    /\ o \in Constructed
    /\ t >= now
    /\ FaultAllowed(io)
    /\ LET c == RunLogParamCall(store, runs[o][1], key, value, io, t)
       IN  /\ last' = c.res
           /\ store' = c.store
           /\ now' = ClockAfter(c.res, t)
           /\ faults' = FaultsAfter(c.res)
    /\ Cardinality(Files') <= MaxFiles
    /\ UNCHANGED <<runs, active, current, trk_eid, tscope>>
    /\ UNCHANGED <<writeVars, result, versions, calls>>

\* run.log_metric(key, value)
RunLogMetric(o, key, value, io, t) ==
    /\ o \in Constructed
    /\ t >= now
    /\ FaultAllowed(io)
    /\ LET c == RunLogMetricCall(store, runs[o][1], key, value, io, t)
       IN  /\ last' = c.res
           /\ store' = c.store
           /\ now' = ClockAfter(c.res, t)
           /\ faults' = FaultsAfter(c.res)
    /\ Cardinality(Files') <= MaxFiles
    /\ UNCHANGED <<runs, active, current, trk_eid, tscope>>
    /\ UNCHANGED <<writeVars, result, versions, calls>>

\* run.end(status)
RunEnd(o, status, io, t) ==
    /\ o \in Constructed
    /\ t >= now
    /\ FaultAllowed(io)
    /\ LET c == RunEndCall(store, runs[o][1], status, io, t)
       IN  /\ last' = c.res
           /\ store' = c.store
           /\ runs' = [runs EXCEPT ![o] = Some(c.run)]
           /\ now' = ClockAfter(c.res, t)
           /\ faults' = FaultsAfter(c.res)
    /\ UNCHANGED <<active, current, trk_eid, tscope>>
    /\ UNCHANGED <<writeVars, result, versions, calls>>

\* Run.__enter__: returns the Run.
RunEnter(o) ==
    /\ o \in Constructed
    /\ last' = "ok"
    /\ UNCHANGED <<runs, store, active, current, trk_eid, tscope, now, faults>>
    /\ UNCHANGED <<writeVars, result, versions, calls>>

\* Run.__exit__: exc says whether the scope is left by a propagating failure.
RunExit(o, exc, io, t) ==
    /\ o \in Constructed
    /\ t >= now
    /\ FaultAllowed(io)
    /\ LET c == RunExitCall(store, runs[o][1], exc, io, t)
       IN  /\ last' = c.res
           /\ store' = c.store
           /\ runs' = [runs EXCEPT ![o] = Some(c.run)]
           /\ now' = IF c.run = runs[o][1] THEN now ELSE t
           /\ faults' = FaultsAfter(c.res)
    /\ UNCHANGED <<active, current, trk_eid, tscope>>
    /\ UNCHANGED <<writeVars, result, versions, calls>>

\* ------------------------------------------ calls on an ExperimentTracker

\* Variant: a tracker that looks at the run it started last, not at the slot.
OwnCurrentRun(tr, act, t) == current[tr]

\* ExperimentTracker.active_run(): the slot of the calling context, whichever
\* tracker is asked.
ActiveRunOf(tr, act, t) == GetActiveRun(act, t)

\* ExperimentTracker.start_run by thread t on tracker tr; eids is the
\* experiment_id attribute of the trackers when the call reads it.
StartRunStep(t, tr, run_name, experiment_id, rid_opt, io, clk, eids) ==
    IF ActiveRunOf(tr, active, t) # None
    THEN /\ last' = "AlreadyActive"
         /\ UNCHANGED <<runs, store, active, current, now, faults>>
    ELSE /\ NextObj <= MaxStarts
         /\ rid_opt = None => FreshIds # {}
         /\ LET final_run_name == IF run_name # None THEN run_name ELSE TrackerRunName(tr)
                  final_experiment_id ==
                      IF experiment_id # None THEN experiment_id[1] ELSE eids[tr]
                  c == RunInitCall(store, NewRunId(rid_opt), final_experiment_id,
                                   final_run_name, io, clk)
              IN  /\ last' = c.res
                  /\ store' = c.store
                  /\ now' = ClockAfter(c.res, clk)
                  /\ faults' = FaultsAfter(c.res)
                  /\ IF c.res = "ok"
                     THEN /\ runs' = [runs EXCEPT ![NextObj] = Some(c.run)]
                          /\ current' = [current EXCEPT ![tr] = Some(NextObj)]
                          /\ active' = SetActiveRun(active, t, Some(NextObj))
                     ELSE UNCHANGED <<runs, current, active>>

\* ExperimentTracker.end_run (clear = {tr}) and the facade's end_run (clear = {})
\* by thread t: an error raised by run.end() leaves the slot as it is.
EndRunStep(t, clear, io, clk) ==
    LET a == GetActiveRun(active, t)
    IN  IF a = None
        THEN /\ last' = "NoActiveRun:end_run"
             /\ UNCHANGED <<runs, store, active, current, now, faults>>
        ELSE LET c == RunEndCall(store, runs[a[1]][1], "FINISHED", io, clk)
             IN  /\ last' = c.res
                 /\ store' = c.store
                 /\ runs' = [runs EXCEPT ![a[1]] = Some(c.run)]
                 /\ now' = ClockAfter(c.res, clk)
                 /\ faults' = FaultsAfter(c.res)
                 /\ IF c.res = "ok"
                    THEN /\ current' = [tr \in Trackers |-> IF tr \in clear THEN None
                                                            ELSE current[tr]]
                         /\ active' = SetActiveRun(active, t, None)
                    ELSE UNCHANGED <<current, active>>

\* tracker.start_run(run_name, experiment_id, run_id)
TrackerStartRun(t, tr, run_name, experiment_id, rid_opt, io, clk) ==
    /\ clk >= now
    /\ FaultAllowed(io)
    /\ StartRunStep(t, tr, run_name, experiment_id, rid_opt, io, clk, trk_eid)
    /\ UNCHANGED <<trk_eid, tscope>>
    /\ UNCHANGED <<writeVars, result, versions, calls>>

\* tracker.active_run()
TrackerActiveRun(t, tr) ==
    /\ last' = "ok"
    /\ UNCHANGED <<runs, store, active, current, trk_eid, tscope, now, faults>>
    /\ UNCHANGED <<writeVars, result, versions, calls>>

\* tracker.end_run()
TrackerEndRun(t, tr, io, clk) ==
    /\ clk >= now
    /\ FaultAllowed(io)
    /\ EndRunStep(t, {tr}, io, clk)
    /\ UNCHANGED <<trk_eid, tscope>>
    /\ UNCHANGED <<writeVars, result, versions, calls>>

\* ExperimentTracker.__enter__: start_run() with the tracker's defaults.
TrackerEnter(t, tr, io, clk) ==
    /\ Len(tscope[t]) < MaxDepth
    /\ clk >= now
    /\ FaultAllowed(io)
    /\ StartRunStep(t, tr, None, None, None, io, clk, trk_eid)
    /\ tscope' = IF last' = "ok"
                 THEN [tscope EXCEPT ![t] = <<[tracker |-> tr, obj |-> active'[t][1]]>> \o @]
                 ELSE tscope
    /\ UNCHANGED trk_eid
    /\ UNCHANGED <<writeVars, result, versions, calls>>

\* ExperimentTracker.__exit__ of the innermost open scope of thread t; exc says
\* whether the scope is left by a propagating failure.
TrackerExit(t, exc, io, clk) ==
    /\ tscope[t] # <<>>
    /\ clk >= now
    /\ FaultAllowed(io)
    /\ IF GetActiveRun(active, t) # None
       THEN EndRunStep(t, {Head(tscope[t]).tracker}, io, clk)
       ELSE /\ last' = "ok"
            /\ UNCHANGED <<runs, store, active, current, now, faults>>
    /\ tscope' = [tscope EXCEPT ![t] = Tail(@)]
    /\ UNCHANGED trk_eid
    /\ UNCHANGED <<writeVars, result, versions, calls>>

\* ------------------------------------------------- the module-level facade

\* start_run(run_name, experiment_id, run_id)
FacadeStartRun(t, run_name, eid, rid_opt, io, clk) ==
    /\ clk >= now
    /\ FaultAllowed(io)
    /\ trk_eid' = [trk_eid EXCEPT !["global"] = eid]
    /\ StartRunStep(t, "global", run_name, None, rid_opt, io, clk, trk_eid')
    /\ UNCHANGED tscope
    /\ UNCHANGED <<writeVars, result, versions, calls>>

\* active_run()
FacadeActiveRun(t) ==
    /\ last' = "ok"
    /\ UNCHANGED <<runs, store, active, current, trk_eid, tscope, now, faults>>
    /\ UNCHANGED <<writeVars, result, versions, calls>>

\* end_run()
FacadeEndRun(t, io, clk) ==
    /\ clk >= now
    /\ FaultAllowed(io)
    /\ EndRunStep(t, {}, io, clk)
    /\ UNCHANGED <<trk_eid, tscope>>
    /\ UNCHANGED <<writeVars, result, versions, calls>>

\* log_param(key, value)
FacadeLogParam(t, key, value, io, clk) ==
    /\ clk >= now
    /\ FaultAllowed(io)
    /\ LET a == GetActiveRun(active, t)
           c == IF a = None THEN [res |-> "NoActiveRun:log_param", store |-> store]
                ELSE RunLogParamCall(store, runs[a[1]][1], key, value, io, clk)
       IN  /\ last' = c.res
           /\ store' = c.store
           /\ now' = ClockAfter(c.res, clk)
           /\ faults' = FaultsAfter(c.res)
    /\ Cardinality(Files') <= MaxFiles
    /\ UNCHANGED <<runs, active, current, trk_eid, tscope>>
    /\ UNCHANGED <<writeVars, result, versions, calls>>

\* log_metric(key, value)
FacadeLogMetric(t, key, value, io, clk) ==
    /\ clk >= now
    /\ FaultAllowed(io)
    /\ LET a == GetActiveRun(active, t)
           c == IF a = None THEN [res |-> "NoActiveRun:log_metric", store |-> store]
                ELSE RunLogMetricCall(store, runs[a[1]][1], key, value, io, clk)
       IN  /\ last' = c.res
           /\ store' = c.store
           /\ now' = ClockAfter(c.res, clk)
           /\ faults' = FaultsAfter(c.res)
    /\ Cardinality(Files') <= MaxFiles
    /\ UNCHANGED <<runs, active, current, trk_eid, tscope>>
    /\ UNCHANGED <<writeVars, result, versions, calls>>

\* ----------------------------------------- _atomic_write, call by call

\* The content a read of path p returns: None when there is no such file.
ContentAt(lk, ino, p) == IF lk[p] = None THEN None ELSE Some(ino[lk[p][1]])

\* The inodes a directory entry or an open file refers to.
Referenced(lk, w) ==
    {i \in Inodes : \/ \E p \in Paths : lk[p] = Some(i)
                    \/ \E u \in Writers : w[u].fd = Some(i)}
\* An inode nothing refers to is gone.
Collect(lk, w, ino) == [i \in Inodes |-> IF i \in Referenced(lk, w) THEN ino[i] ELSE <<>>]
\* The inode of a file that open() creates.
NewInode(lk, w) == CHOOSE i \in Inodes \ Referenced(lk, w) : TRUE

\* write() of one block at block offset off of a file (off counts from 0).
WriteAt(text, off, block) ==
    [i \in 1..(IF off + 1 > Len(text) THEN off + 1 ELSE Len(text)) |->
        IF i = off + 1 THEN block
        ELSE IF i <= Len(text) THEN text[i]
        ELSE Hole]

\* The calls of _atomic_write so far.
RECURSIVE SumCalls(_)
SumCalls(ws) ==
    IF ws = {} THEN 0
    ELSE LET w == CHOOSE u \in ws : TRUE IN wr[w].calls + SumCalls(ws \ {w})
CallsMade == SumCalls(Writers)

\* A thread calls _atomic_write(file_path, content).
AwCall(w, key, content) ==
    /\ wr[w].pc \in Outside
    /\ CallsMade < MaxCalls
    /\ LET path == ParamFile(key)
           inside == {u \in Writers \ {w} : wr[u].pc \notin Outside}
           others == {u \in inside : wr[u].path = Some(path)}
       IN  /\ wr' = [wr EXCEPT ![w] = [pc |-> "ensure_directory", path |-> Some(path),
                                       content |-> content, fd |-> None, off |-> 0,
                                       calls |-> @.calls + 1]]
           /\ hist' = [u \in Writers |->
                          IF u = w THEN [before |-> ContentAt(links, inodes, path),
                                         concurrent |-> inside # {},
                                         overlap |-> others # {}, injected |-> FALSE]
                          ELSE IF u \in others
                          THEN [hist[u] EXCEPT !.concurrent = TRUE, !.overlap = TRUE]
                          ELSE IF u \in inside THEN [hist[u] EXCEPT !.concurrent = TRUE]
                          ELSE hist[u]]
    /\ UNCHANGED <<pdir, links, inodes, seen, faults>>
    /\ UNCHANGED <<runVars, result, versions, calls>>

\* Line 62: _ensure_directory(file_path.parent), outside the try block.
AwEnsureDirectory(w, io) ==
    /\ wr[w].pc = "ensure_directory"
    /\ FaultAllowed(io)
    /\ IF io = "ok"
       THEN /\ pdir' = TRUE
            /\ wr' = [wr EXCEPT ![w].pc = "open"]
            /\ UNCHANGED <<hist, faults>>
       ELSE /\ wr' = [wr EXCEPT ![w].pc = "raised"]
            /\ hist' = [hist EXCEPT ![w].injected = TRUE]
            /\ faults' = faults + 1
            /\ UNCHANGED pdir
    /\ UNCHANGED <<links, inodes, seen>>
    /\ UNCHANGED <<runVars, result, versions, calls>>

\* Line 67: open(temp_file, 'w') creates the file or truncates the one there.
AwOpen(w, io) ==
    /\ wr[w].pc = "open"
    /\ FaultAllowed(io)
    /\ IF io = "ok"
       THEN LET tmp == TempFile(wr[w].path[1])
                i == IF links[tmp] = None THEN NewInode(links, wr) ELSE links[tmp][1]
            IN  /\ links' = [links EXCEPT ![tmp] = Some(i)]
                /\ inodes' = [inodes EXCEPT ![i] = <<>>]
                /\ wr' = [wr EXCEPT ![w].pc = "write", ![w].fd = Some(i), ![w].off = 0]
                /\ UNCHANGED <<hist, faults>>
       ELSE /\ wr' = [wr EXCEPT ![w].pc = "except"]
            /\ hist' = [hist EXCEPT ![w].injected = TRUE]
            /\ faults' = faults + 1
            /\ UNCHANGED <<links, inodes>>
    /\ UNCHANGED <<pdir, seen>>
    /\ UNCHANGED <<runVars, result, versions, calls>>

\* Line 68 and the end of the with block: the next block of content goes to
\* the open file at the file position; after the last one the file is closed.
AwWrite(w, io) ==
    /\ wr[w].pc = "write"
    /\ FaultAllowed(io)
    /\ IF io = "ok"
       THEN LET i == wr[w].fd[1]
                off == wr[w].off
                last_block == off + 1 = Len(wr[w].content)
                wr2 == [wr EXCEPT ![w].off = off + 1,
                                  ![w].pc = IF last_block THEN "replace" ELSE "write",
                                  ![w].fd = IF last_block THEN None ELSE @]
            IN  /\ wr' = wr2
                /\ inodes' = Collect(links, wr2,
                                     [inodes EXCEPT ![i] = WriteAt(@, off, wr[w].content[off + 1])])
                /\ UNCHANGED <<hist, faults>>
       ELSE LET wr2 == [wr EXCEPT ![w].pc = "except", ![w].fd = None]
            IN  /\ wr' = wr2
                /\ inodes' = Collect(links, wr2, inodes)
                /\ hist' = [hist EXCEPT ![w].injected = TRUE]
                /\ faults' = faults + 1
    /\ UNCHANGED <<pdir, links, seen>>
    /\ UNCHANGED <<runVars, result, versions, calls>>

\* Line 70: temp_file.replace(file_path); it raises FileNotFoundError when
\* there is no file at temp_file.
AwReplace(w, io) ==
    /\ wr[w].pc = "replace"
    /\ FaultAllowed(io)
    /\ LET path == wr[w].path[1]
           tmp == TempFile(path)
       IN  IF io = "ok" /\ links[tmp] # None
           THEN LET lk == [links EXCEPT ![path] = links[tmp], ![tmp] = None]
                IN  /\ links' = lk
                    /\ inodes' = Collect(lk, wr, inodes)
                    /\ wr' = [wr EXCEPT ![w].pc = "returned"]
                    /\ UNCHANGED <<hist, faults>>
           ELSE /\ wr' = [wr EXCEPT ![w].pc = "except"]
                /\ hist' = [hist EXCEPT ![w].injected = (@ \/ io # "ok")]
                /\ faults' = IF io # "ok" THEN faults + 1 ELSE faults
                /\ UNCHANGED <<links, inodes>>
    /\ UNCHANGED <<pdir, seen>>
    /\ UNCHANGED <<runVars, result, versions, calls>>

\* An except block that raises without unlinking temp_file.
AwExceptNoUnlink(w) ==
    /\ wr[w].pc = "except"
    /\ wr' = [wr EXCEPT ![w].pc = "raised"]
    /\ UNCHANGED <<pdir, links, inodes, hist, seen, faults>>
    /\ UNCHANGED <<runVars, result, versions, calls>>

\* Lines 71-75: the except block unlinks temp_file if it exists and raises.
AwExcept(w) ==
    /\ wr[w].pc = "except"
    /\ LET tmp == TempFile(wr[w].path[1])
           lk == [links EXCEPT ![tmp] = None]
       IN  /\ links' = lk
           /\ inodes' = Collect(lk, wr, inodes)
    /\ wr' = [wr EXCEPT ![w].pc = "raised"]
    /\ UNCHANGED <<pdir, hist, seen, faults>>
    /\ UNCHANGED <<runVars, result, versions, calls>>

\* A reader thread reads the file of a key (as load_run does); busy records
\* whether a writer was inside _atomic_write for that file.
ReadFile(key) ==
    /\ seen' = Some([path |-> ParamFile(key),
                     content |-> ContentAt(links, inodes, ParamFile(key)),
                     busy |-> \E w \in Writers : /\ wr[w].pc \notin Outside
                                                 /\ wr[w].path = Some(ParamFile(key))])
    /\ UNCHANGED <<pdir, links, inodes, wr, hist, faults>>
    /\ UNCHANGED <<runVars, result, versions, calls>>

\* The steps of writer w.
WriterStep(w) ==
    \/ \E k \in WriteKeys, c \in Contents : AwCall(w, k, c)
    \/ \E io \in {"ok", "fail_write"} :
         \/ AwEnsureDirectory(w, io)
         \/ AwOpen(w, io)
         \/ AwWrite(w, io)
         \/ AwReplace(w, io)
    \/ AwExcept(w)

\* One writer thread and a reader.
NextWriter ==
    \/ WriterStep("w1")
    \/ \E k \in WriteKeys : ReadFile(k)

\* The writer threads and a reader.
NextWriters ==
    \/ \E w \in Writers : WriterStep(w)
    \/ \E k \in WriteKeys : ReadFile(k)

SpecWriter == Init /\ [][NextWriter]_vars
SpecWriters == Init /\ [][NextWriters]_vars

\* ------------------------------------------------------- the specification

\* The calls are made with inputs from the sets above.  Each specification
\* below takes the inputs its calls do not depend on at one value: a Run made
\* with Run(run_id) has the default experiment 0 and no name.
DefaultExperiment == {0}
NoName == {None}
\* Run(run_id) with a generated identifier or with the identifier "a".
RunIdArgs == {None, Some("a")}
\* tracker.start_run(): the run is named, placed and identified by the tracker.
NoExperiment == {None}
NoRunId == {None}

\* Calls on Run objects alone: construction, logging, end and the Run scope.
NextRun ==
    \/ \E r \in RunIdArgs, e \in DefaultExperiment, n \in NoName,
          io \in IoOutcomes, t \in Times : RunInit(r, e, n, io, t)
    \/ \E o \in Objs, k \in Keys, v \in Values, io \in IoOutcomes, t \in Times :
         RunLogParam(o, k, v, io, t)
    \/ \E o \in Objs, k \in Keys, v \in Values, io \in IoOutcomes, t \in Times :
         RunLogMetric(o, k, v, io, t)
    \/ \E o \in Objs, s \in EndArgs, io \in IoOutcomes, t \in Times : RunEnd(o, s, io, t)
    \/ \E o \in Objs : RunEnter(o)
    \/ \E o \in Objs, exc \in BOOLEAN, io \in IoOutcomes, t \in Times : RunExit(o, exc, io, t)

\* Calls on the trackers by the threads, and run.end() on the Run objects they
\* returned; run ids are generated and the clock stands still.
NextTracker ==
    \/ \E t \in Threads, tr \in Trackers, n \in NoName, e \in NoExperiment, r \in NoRunId,
          io \in IoOutcomes : TrackerStartRun(t, tr, n, e, r, io, now)
    \/ \E t \in Threads, tr \in Trackers : TrackerActiveRun(t, tr)
    \/ \E t \in Threads, tr \in Trackers, io \in IoOutcomes : TrackerEndRun(t, tr, io, now)
    \/ \E o \in Objs, s \in EndArgs, io \in IoOutcomes : RunEnd(o, s, io, now)

\* Every call of the library, with every input.
Next ==
    \/ \E r \in Opt(RunIds), e \in Experiments, n \in Opt(Names), io \in IoOutcomes,
          t \in Times : RunInit(r, e, n, io, t)
    \/ \E o \in Objs, k \in Keys, v \in Values, io \in IoOutcomes, t \in Times :
         \/ RunLogParam(o, k, v, io, t)
         \/ RunLogMetric(o, k, v, io, t)
    \/ \E o \in Objs, io \in IoOutcomes, t \in Times :
         \/ \E s \in EndArgs : RunEnd(o, s, io, t)
         \/ RunEnter(o)
         \/ \E exc \in BOOLEAN : RunExit(o, exc, io, t)
    \/ \E t \in Threads, tr \in Trackers, io \in IoOutcomes, clk \in Times :
         \/ \E n \in Opt(Names), e \in Opt(Experiments), r \in Opt(RunIds) :
              TrackerStartRun(t, tr, n, e, r, io, clk)
         \/ TrackerActiveRun(t, tr)
         \/ TrackerEndRun(t, tr, io, clk)
         \/ TrackerEnter(t, tr, io, clk)
         \/ \E exc \in BOOLEAN : TrackerExit(t, exc, io, clk)
    \/ \E t \in Threads, io \in IoOutcomes, clk \in Times :
         \/ \E n \in Opt(Names), e \in Experiments, r \in Opt(RunIds) :
              FacadeStartRun(t, n, e, r, io, clk)
         \/ FacadeActiveRun(t)
         \/ FacadeEndRun(t, io, clk)
         \/ \E k \in Keys, v \in Values : FacadeLogParam(t, k, v, io, clk)
         \/ \E k \in Keys, v \in Values : FacadeLogMetric(t, k, v, io, clk)

SpecRun == Init /\ [][NextRun]_vars
SpecTracker == Init /\ [][NextTracker]_vars
Spec == Init /\ [][Next]_vars

\* ------------------------------------- the storage functions, called directly

\* save_param(run_id, experiment_id, key, value)
StoreSaveParam(run_id, experiment_id, key, value, io, t) ==
    /\ t >= now
    /\ FaultAllowed(io)
    /\ LET c == SaveParam(store, run_id, experiment_id, key, value, io, t)
       IN  /\ last' = c.res
           /\ store' = c.store
           /\ now' = ClockAfter(c.res, t)
           /\ faults' = FaultsAfter(c.res)
    /\ Cardinality(Files') <= MaxSaved
    /\ result' = None
    /\ UNCHANGED <<runs, active, current, trk_eid, tscope, writeVars, versions, calls>>

\* save_metric(run_id, experiment_id, key, value)
StoreSaveMetric(run_id, experiment_id, key, value, io, t) ==
    /\ t >= now
    /\ FaultAllowed(io)
    /\ LET c == SaveMetric(store, run_id, experiment_id, key, value, io, t)
       IN  /\ last' = c.res
           /\ store' = c.store
           /\ now' = ClockAfter(c.res, t)
           /\ faults' = FaultsAfter(c.res)
    /\ Cardinality(Files') <= MaxSaved
    /\ result' = None
    /\ UNCHANGED <<runs, active, current, trk_eid, tscope, writeVars, versions, calls>>

\* load_run(run_id, experiment_id)
StoreLoadRun(run_id, experiment_id) ==
    /\ result' = LoadRun(store, run_id, experiment_id)
    /\ last' = IF result' = None THEN "NotFound" ELSE "ok"
    /\ UNCHANGED <<runs, store, active, current, trk_eid, tscope, now, faults, writeVars, versions, calls>>

\* Saves and loads of a client that works on the store directly; the clock
\* stands still.
NextStore ==
    \/ \E r \in StoreRuns, e \in DefaultExperiment, k \in ValidKeys, v \in StoreValues,
          io \in StoreIo : StoreSaveParam(r, e, k, v, io, now)
    \/ \E r \in StoreRuns, e \in DefaultExperiment, k \in BadKeys, v \in RefusedValues,
          io \in StoreIo : StoreSaveParam(r, e, k, v, io, now)
    \/ \E r \in StoreRuns, e \in DefaultExperiment, k \in ValidKeys, v \in StoreValues,
          io \in StoreIo : StoreSaveMetric(r, e, k, v, io, now)
    \/ \E r \in StoreRuns, e \in DefaultExperiment, k \in BadKeys, v \in RefusedValues,
          io \in StoreIo : StoreSaveMetric(r, e, k, v, io, now)
    \/ \E r \in LoadRuns, e \in DefaultExperiment : StoreLoadRun(r, e)

SpecStore == Init /\ [][NextStore]_vars

\* --------------------------------------------------------- save_metadata

\* The runs whose metadata a client saves directly, and the mappings it passes:
\* the entries a Run passes, alone or with a run_id or an experiment_id entry
\* of the caller's own.
MetaRuns == {"a", "b"}
RunEntries == {[name |-> n, status |-> "RUNNING", start_time |-> 0, end_time |-> None] :
                   n \in Opt(Names)}
Metadatas ==
    RunEntries
    \cup {("run_id" :> "c") @@ m : m \in RunEntries}
    \cup {("experiment_id" :> 1) @@ m : m \in RunEntries}
    \cup {("run_id" :> "c") @@ ("experiment_id" :> 1) @@ m : m \in RunEntries}

\* save_metadata(run_id, experiment_id, metadata); result is the caller's
\* mapping after the call.
StoreSaveMetadata(run_id, experiment_id, metadata, io, t) ==
    /\ t >= now
    /\ FaultAllowed(io)
    /\ LET c == SaveMetadataCall(store, run_id, experiment_id, metadata, io, t)
       IN  /\ last' = c.res
           /\ store' = c.store
           /\ result' = Some(c.metadata)
           /\ now' = ClockAfter(c.res, t)
           /\ faults' = FaultsAfter(c.res)
    /\ UNCHANGED <<runs, active, current, trk_eid, tscope, writeVars, versions, calls>>

\* A client saves metadata directly and loads the runs; the clock stands still.
NextMeta ==
    \/ \E r \in MetaRuns, e \in Experiments, m \in Metadatas, io \in StoreIo :
          StoreSaveMetadata(r, e, m, io, now)
    \/ \E r \in MetaRuns, e \in Experiments : StoreLoadRun(r, e)

SpecMeta == Init /\ [][NextMeta]_vars

\* ------------------------------------------------------------- list_runs

\* list_runs(experiment_id)
StoreListRuns(experiment_id) ==
    /\ \E s \in ListRuns(store, experiment_id) : result' = Some(s)
    /\ last' = "ok"
    /\ UNCHANGED <<runs, store, active, current, trk_eid, tscope, now, faults, writeVars, versions, calls>>

\* Threads start runs through one tracker, end them through the Run objects
\* or the tracker and list the runs, while the clock advances or stands still.
NextList ==
    \/ \E t \in Threads, tr \in ListTrackers, n \in NoName, e \in NoExperiment,
          r \in NoRunId, io \in ListIo, clk \in ListTimes :
          TrackerStartRun(t, tr, n, e, r, io, clk)
    \/ \E o \in Objs, s \in EndArgs, io \in ListIo, clk \in ListTimes : RunEnd(o, s, io, clk)
    \/ \E t \in Threads, tr \in ListTrackers, io \in ListIo, clk \in ListTimes :
          TrackerEndRun(t, tr, io, clk)
    \/ \E e \in Experiments : StoreListRuns(e)

SpecList == Init /\ [][NextList]_vars

\* --------------------------------------------------------- Tracker scopes

\* "with tracker as run: body": threads enter and leave scopes of the trackers;
\* the body ends the run through the Run object or through the tracker, or
\* starts another run.  Run ids are generated and the clock stands still.
NextScope ==
    \/ \E t \in Threads, tr \in Trackers, io \in IoOutcomes : TrackerEnter(t, tr, io, now)
    \/ \E o \in Objs, s \in EndArgs, io \in IoOutcomes : RunEnd(o, s, io, now)
    \/ \E t \in Threads, tr \in Trackers, io \in IoOutcomes : TrackerEndRun(t, tr, io, now)
    \/ \E t \in Threads, tr \in Trackers, n \in NoName, e \in NoExperiment, r \in NoRunId,
          io \in IoOutcomes : TrackerStartRun(t, tr, n, e, r, io, now)
    \/ \E t \in Threads, exc \in BOOLEAN, io \in IoOutcomes : TrackerExit(t, exc, io, now)

SpecScope == Init /\ [][NextScope]_vars

\* ------------------------------------------------------------ the facade

\* Threads use the module-level functions alone; run ids are generated, runs go
\* to the default experiment and the clock stands still.
NextFacade ==
    \/ \E t \in Threads, n \in NoName, e \in DefaultExperiment, r \in NoRunId,
          io \in IoOutcomes : FacadeStartRun(t, n, e, r, io, now)
    \/ \E t \in Threads : FacadeActiveRun(t)
    \/ \E t \in Threads, io \in IoOutcomes : FacadeEndRun(t, io, now)
    \/ \E t \in Threads, k \in Keys, v \in Values, io \in IoOutcomes :
          FacadeLogParam(t, k, v, io, now)
    \/ \E t \in Threads, k \in Keys, v \in Values, io \in IoOutcomes :
          FacadeLogMetric(t, k, v, io, now)

SpecFacade == Init /\ [][NextFacade]_vars

\* ----------------------------------------------------------- versions

\* The version labels runs are started and looked up with.
Versions == {"v1", "v2"}

\* load_run's result for a run, its metadata with the version entry of
\* meta.yaml.
LoadVersioned(st, ver, run_id, experiment_id) ==
    LET data == LoadRun(st, run_id, experiment_id)[1]
    IN  [data EXCEPT !.metadata = ("version" :> ver[GetRunDir(run_id, experiment_id)]) @@ @]

\* The first element of the sequence s that is in M: None when there is none.
FirstIn(s, M) ==
    IF \E i \in 1..Len(s) : s[i] \in M
    THEN Some(s[CHOOSE i \in 1..Len(s) : s[i] \in M /\ \A j \in 1..(i - 1) : s[j] \notin M])
    ELSE None

\* The scan of get_run_by_version and get_latest_version: list_runs of the
\* experiment, load_run of each run in that order, the first run in M is
\* returned, None when the list holds none.  The results the scan can have.
ScanRuns(st, ver, experiment_id, M) ==
    {IF FirstIn(s, M) = None THEN None
     ELSE Some(LoadVersioned(st, ver, FirstIn(s, M)[1], experiment_id)) :
         s \in ListRuns(st, experiment_id)}

\* get_run_by_version: the first run whose metadata name and version both match.
GetRunByVersion(st, ver, experiment_id, name, version) ==
    ScanRuns(st, ver, experiment_id,
             {rid \in RunDirs(st, experiment_id) :
                  LET md == LoadVersioned(st, ver, rid, experiment_id).metadata
                  IN  md.name = Some(name) /\ md.version = Some(version)})

\* get_latest_version: the first run whose metadata name matches and that
\* carries a version.
GetLatestVersion(st, ver, experiment_id, name) ==
    ScanRuns(st, ver, experiment_id,
             {rid \in RunDirs(st, experiment_id) :
                  LET md == LoadVersioned(st, ver, rid, experiment_id).metadata
                  IN  md.name = Some(name) /\ md.version # None})

\* tracker.start_run(run_name, experiment_id, run_id, version): the Run is made
\* with the version, which its metadata carry from the first write on.
TrackerStartRunVersioned(t, tr, run_name, experiment_id, rid_opt, version, io, clk) ==
    /\ clk >= now
    /\ FaultAllowed(io)
    /\ StartRunStep(t, tr, run_name, experiment_id, rid_opt, io, clk, trk_eid)
    /\ versions' = IF last' = "ok"
                   THEN [versions EXCEPT ![GetRunDir(runs'[NextObj][1].run_id,
                                                     runs'[NextObj][1].experiment_id)] = version]
                   ELSE versions
    /\ UNCHANGED <<trk_eid, tscope>>
    /\ UNCHANGED <<writeVars, result, calls>>

\* tracker.get_run_by_version(name, version)
TrackerGetRunByVersion(tr, name, version) ==
    /\ result' \in GetRunByVersion(store, versions, trk_eid[tr], name, version)
    /\ last' = "ok"
    /\ UNCHANGED <<runs, store, active, current, trk_eid, tscope, now, faults, writeVars, versions, calls>>

\* tracker.get_latest_version(name)
TrackerGetLatestVersion(tr, name) ==
    /\ result' \in GetLatestVersion(store, versions, trk_eid[tr], name)
    /\ last' = "ok"
    /\ UNCHANGED <<runs, store, active, current, trk_eid, tscope, now, faults, writeVars, versions, calls>>

\* Threads start runs with and without a name and a version through one
\* tracker, end them through the tracker, and look runs up, while the clock
\* advances or stands still.
NextVersion ==
    \/ \E t \in Threads, tr \in ListTrackers, n \in Opt(Names), e \in NoExperiment,
          r \in NoRunId, v \in Opt(Versions), io \in ListIo, clk \in ListTimes :
          TrackerStartRunVersioned(t, tr, n, e, r, v, io, clk)
    \/ \E t \in Threads, tr \in ListTrackers, io \in ListIo, clk \in ListTimes :
          TrackerEndRun(t, tr, io, clk)
    \/ \E tr \in ListTrackers, n \in Names, v \in Versions : TrackerGetRunByVersion(tr, n, v)
    \/ \E tr \in ListTrackers, n \in Names : TrackerGetLatestVersion(tr, n)

SpecVersion == Init /\ [][NextVersion]_vars

\* ------------------------------- the facade's start_run, by statement

\* start_run(run_name, experiment_id, run_id), line 207: the experiment_id
\* attribute of the global tracker is assigned.
FacadeStartRunAssign(t, run_name, eid, rid_opt) ==
    /\ calls[t] = None
    /\ trk_eid' = [trk_eid EXCEPT !["global"] = eid]
    /\ calls' = [calls EXCEPT ![t] = Some([op |-> "start_run", run_name |-> run_name,
                                           experiment_id |-> eid, run_id |-> rid_opt])]
    /\ UNCHANGED <<runs, store, active, current, tscope, now, faults, last>>
    /\ UNCHANGED <<writeVars, result, versions>>

\* Line 208: _global_tracker.start_run(run_name=run_name, run_id=run_id), which
\* reads the experiment_id attribute as it is now.
FacadeStartRunCall(t, io, clk) ==
    /\ calls[t] # None
    /\ calls[t][1].op = "start_run"
    /\ clk >= now
    /\ FaultAllowed(io)
    /\ StartRunStep(t, "global", calls[t][1].run_name, None, calls[t][1].run_id, io, clk,
                    trk_eid)
    /\ calls' = [calls EXCEPT ![t] = None]
    /\ UNCHANGED <<trk_eid, tscope>>
    /\ UNCHANGED <<writeVars, result, versions>>

\* A thread that is between calls.
Idle(t) == calls[t] = None

\* end_run() of the facade by a thread that is between calls.
IdleFacadeEndRun(t, io, clk) ==
    /\ Idle(t)
    /\ FacadeEndRun(t, io, clk)

\* Threads start runs through the facade in either experiment, statement by
\* statement, and end them; run ids are generated and the clock stands still.
NextFacadeThreads ==
    \/ \E t \in Threads, n \in NoName, e \in Experiments, r \in NoRunId :
          FacadeStartRunAssign(t, n, e, r)
    \/ \E t \in Threads, io \in IoOutcomes : FacadeStartRunCall(t, io, now)
    \/ \E t \in Threads, io \in IoOutcomes : IdleFacadeEndRun(t, io, now)

SpecFacadeThreads == Init /\ [][NextFacadeThreads]_vars

\* --------------------------- one Run used by several threads, by statement

\* The call of thread t, at statement pc, of method op on Run object o.
Inside(t, op, pc) == calls[t] # None /\ calls[t][1].op = op /\ calls[t][1].pc = pc

\* run.end(status), lines 127-131: the two checks.  A call that passes them
\* goes on to line 133.
RunEndCheck(t, o, status) ==
    /\ Idle(t)
    /\ o \in Constructed
    /\ IF ~IsRunning(runs[o][1])
       THEN last' = "InvalidState:end" /\ UNCHANGED calls
       ELSE IF ~IsEndStatus(status)
       THEN last' = "InvalidArgument:end" /\ UNCHANGED calls
       ELSE /\ calls' = [calls EXCEPT ![t] = Some([op |-> "end", pc |-> 133, obj |-> o,
                                                   status |-> status, end_time |-> None])]
            /\ UNCHANGED last
    /\ UNCHANGED <<runs, store, active, current, trk_eid, tscope, now, faults>>
    /\ UNCHANGED <<writeVars, result, versions>>

\* Line 133: self.status = status
RunEndAssignStatus(t) ==
    /\ Inside(t, "end", 133)
    /\ runs' = [runs EXCEPT ![calls[t][1].obj] = Some([@[1] EXCEPT !.status = calls[t][1].status])]
    /\ calls' = [calls EXCEPT ![t] = Some([@[1] EXCEPT !.pc = 134])]
    /\ UNCHANGED <<store, active, current, trk_eid, tscope, now, faults, last>>
    /\ UNCHANGED <<writeVars, result, versions>>

\* Line 134: self.end_time = datetime.utcnow()...
RunEndAssignEndTime(t, clk) ==
    /\ Inside(t, "end", 134)
    /\ clk >= now
    /\ runs' = [runs EXCEPT ![calls[t][1].obj] = Some([@[1] EXCEPT !.end_time = Some(clk)])]
    /\ now' = clk
    /\ calls' = [calls EXCEPT ![t] = Some([@[1] EXCEPT !.pc = 135, !.end_time = Some(clk)])]
    /\ UNCHANGED <<store, active, current, trk_eid, tscope, faults, last>>
    /\ UNCHANGED <<writeVars, result, versions>>

\* Line 135: self._save_metadata() writes the fields the Run has now; the call
\* returns, or raises what the write raises.
RunEndSave(t, io) ==
    /\ Inside(t, "end", 135)
    /\ FaultAllowed(io)
    /\ store' = RunSaveMetadata(store, runs[calls[t][1].obj][1], io, now)
    /\ last' = IoResult(io)
    /\ faults' = FaultsAfter(IoResult(io))
    /\ calls' = [calls EXCEPT ![t] = None]
    /\ UNCHANGED <<runs, active, current, trk_eid, tscope, now>>
    /\ UNCHANGED <<writeVars, result, versions>>

\* run.log_param / run.log_metric (kind), lines 82-83 and 105-106: the check of
\* the status.  A call that passes it goes on to the save.
RunLogCheck(t, o, kind, key, value) ==
    /\ Idle(t)
    /\ o \in Constructed
    /\ IF ~IsRunning(runs[o][1])
       THEN last' = "InvalidState:" \o kind /\ UNCHANGED calls
       ELSE /\ calls' = [calls EXCEPT ![t] = Some([op |-> kind, pc |-> "save", obj |-> o,
                                                   key |-> key, value |-> value])]
            /\ UNCHANGED last
    /\ UNCHANGED <<runs, store, active, current, trk_eid, tscope, now, faults>>
    /\ UNCHANGED <<writeVars, result, versions>>

\* Lines 85-91 and 108-114: save_param / save_metric for the run.
RunLogSave(t, io, clk) ==
    /\ calls[t] # None
    /\ calls[t][1].op \in {"log_param", "log_metric"}
    /\ clk >= now
    /\ FaultAllowed(io)
    /\ LET r == runs[calls[t][1].obj][1]
           c == IF calls[t][1].op = "log_param"
                THEN SaveParam(store, r.run_id, r.experiment_id, calls[t][1].key,
                               calls[t][1].value, io, clk)
                ELSE SaveMetric(store, r.run_id, r.experiment_id, calls[t][1].key,
                                calls[t][1].value, io, clk)
       IN  /\ last' = c.res
           /\ store' = c.store
           /\ now' = ClockAfter(c.res, clk)
           /\ faults' = FaultsAfter(c.res)
    /\ calls' = [calls EXCEPT ![t] = None]
    /\ UNCHANGED <<runs, active, current, trk_eid, tscope>>
    /\ UNCHANGED <<writeVars, result, versions>>

\* One thread makes a Run; the threads then log to it and end it, statement
\* by statement.
LogKinds == {"log_param", "log_metric"}
NextShared ==
    \/ \E r \in NoRunId, e \in DefaultExperiment, n \in NoName, io \in ListIo :
          RunInit(r, e, n, io, now)
    \/ \E t \in Threads, o \in Objs, s \in EndArgs : RunEndCheck(t, o, s)
    \/ \E t \in Threads : RunEndAssignStatus(t)
    \/ \E t \in Threads, clk \in Times : RunEndAssignEndTime(t, clk)
    \/ \E t \in Threads, io \in IoOutcomes : RunEndSave(t, io)
    \/ \E t \in Threads, o \in Objs, kind \in LogKinds, k \in Keys, v \in Values :
          RunLogCheck(t, o, kind, k, v)
    \/ \E t \in Threads, io \in IoOutcomes, clk \in Times : RunLogSave(t, io, clk)

SpecShared == Init /\ [][NextShared]_vars

\* ------------------------------------------ runs with a caller's run id

\* Threads start runs through one tracker with a generated run id or with the
\* run id "a", and end them; the clock stands still.
NextRestart ==
    \/ \E t \in Threads, tr \in ListTrackers, n \in NoName, e \in NoExperiment,
          r \in RunIdArgs, io \in IoOutcomes : TrackerStartRun(t, tr, n, e, r, io, now)
    \/ \E t \in Threads, tr \in ListTrackers, io \in IoOutcomes : TrackerEndRun(t, tr, io, now)

SpecRestart == Init /\ [][NextRestart]_vars

\* ------------------------------------------------- logging to several runs

\* The clock readings of a log.
LogTimes == {1}

\* tracker.log_param / log_metric up to the check of the run: the active run
\* of the context is looked up and its status checked.
FacadeLogCheck(t, kind, key, value) ==
    /\ active[t] # None
    /\ RunLogCheck(t, active[t][1], kind, key, value)

\* Two threads start a run each through one tracker, log parameters and
\* metrics under valid keys to their runs; the clock advances with the first
\* log.
NextLog ==
    \/ \E t \in Threads, tr \in ListTrackers, n \in NoName, e \in NoExperiment,
          r \in NoRunId, io \in ListIo : TrackerStartRun(t, tr, n, e, r, io, now)
    \/ \E t \in Threads, kind \in LogKinds, k \in ValidKeys, v \in Values :
          FacadeLogCheck(t, kind, k, v)
    \/ \E t \in Threads, io \in ListIo, clk \in LogTimes : RunLogSave(t, io, clk)

SpecLog == Init /\ [][NextLog]_vars

\* ------------------------------------------- records and metadata, listed

\* The key of the records saved next to metadata.
ListedKeys == {<<"l", "r">>}

\* A client saves metadata of two runs directly, in either experiment, and
\* records of the runs in one experiment, lists the runs and loads them; the
\* write of metadata may fail and the clock stands still.
NextListed ==
    \/ \E r \in MetaRuns, e \in DefaultExperiment, k \in ListedKeys, v \in Values, io \in ListIo :
          StoreSaveParam(r, e, k, v, io, now)
    \/ \E r \in MetaRuns, e \in DefaultExperiment, k \in ListedKeys, v \in Values, io \in ListIo :
          StoreSaveMetric(r, e, k, v, io, now)
    \/ \E r \in MetaRuns, e \in Experiments, m \in RunEntries, io \in StoreIo :
          StoreSaveMetadata(r, e, m, io, now)
    \/ \E e \in Experiments : StoreListRuns(e)
    \/ \E r \in MetaRuns, e \in DefaultExperiment : StoreLoadRun(r, e)

SpecListed == Init /\ [][NextListed]_vars

\* --------------------------------------------- trackers and the facade

\* Threads start runs through either tracker object and through the facade,
\* in either experiment, and end them through the trackers, the facade or the
\* Run objects; the file system may fail and the clock stands still.
NextSlot ==
    \/ \E t \in Threads, tr \in Trackers, n \in NoName, e \in NoExperiment, r \in NoRunId,
          io \in StoreIo : TrackerStartRun(t, tr, n, e, r, io, now)
    \/ \E t \in Threads, n \in NoName, e \in Experiments, r \in NoRunId, io \in StoreIo :
          FacadeStartRun(t, n, e, r, io, now)
    \/ \E t \in Threads, tr \in Trackers, io \in StoreIo : TrackerEndRun(t, tr, io, now)
    \/ \E t \in Threads, io \in StoreIo : FacadeEndRun(t, io, now)
    \/ \E o \in Objs, s \in EndArgs, io \in StoreIo : RunEnd(o, s, io, now)

SpecSlot == Init /\ [][NextSlot]_vars

\* ------------------------------------------------------------ properties

Terminal == {"FINISHED", "FAILED"}

\* C1: across log_param, log_metric, end and scope enter/exit calls on a Run,
\* the status of the Run changes only RUNNING -> FINISHED or RUNNING -> FAILED;
\* once it is FINISHED or FAILED it never changes again.
C1_StatusTransitions ==
    [][\A o \in Constructed :
          /\ runs'[o] # None
          /\ \/ runs'[o][1].status = runs[o][1].status
             \/ /\ runs[o][1].status = "RUNNING"
                /\ runs'[o][1].status \in Terminal]_vars

\* A Run that has made the transition RUNNING -> FAILED.
C1_Witness == \E o \in Constructed : runs[o][1].status = "FAILED" /\ last = "ok"

\* C2: in every reachable state of a Run, after any completed call whether it
\* succeeded or failed, end_time is set if and only if the status is FINISHED
\* or FAILED.
C2_EndTimeIffTerminal ==
    \A o \in Constructed : (runs[o][1].end_time # None) <=> (runs[o][1].status \in Terminal)

\* A Run whose end failed on the filesystem: it is FINISHED and has its end_time.
C2_Witness ==
    \E o \in Constructed :
        /\ runs[o][1].status = "FINISHED"
        /\ runs[o][1].end_time # None
        /\ last = "IOFailure"

\* C3: end on a Run that has ended, with any status argument, fails with
\* InvalidState and leaves the status, the end_time and the persisted metadata
\* as they were.
C3_SecondEndFails ==
    [][\A o \in Constructed :
          runs[o][1].status \in Terminal
              => \A s \in EndArgs, io \in IoOutcomes, t \in Times :
                    RunEnd(o, s, io, t)
                        => /\ last' = "InvalidState:end"
                           /\ runs' = runs
                           /\ store' = store]_vars

\* A second end has been called.
C3_Witness ==
    /\ last = "InvalidState:end"
    /\ \E o \in Constructed : runs[o][1].status \in Terminal

\* C4: log_param and log_metric on a Run whose status is FINISHED or FAILED
\* fail with InvalidState and write no file: the store is unchanged.
C4_LogAfterEndFails ==
    [][\A o \in Constructed :
          runs[o][1].status \in Terminal
              => \A k \in Keys, v \in Values, io \in IoOutcomes, t \in Times :
                    /\ RunLogParam(o, k, v, io, t)
                          => (last' = "InvalidState:log_param" /\ store' = store)
                    /\ RunLogMetric(o, k, v, io, t)
                          => (last' = "InvalidState:log_metric" /\ store' = store)]_vars

\* log_metric has been called on a Run that has ended.
C4_Witness ==
    /\ last = "InvalidState:log_metric"
    /\ \E o \in Constructed : runs[o][1].status \in Terminal

\* C5: end on a RUNNING Run with a status other than FINISHED or FAILED fails
\* with InvalidArgument and leaves the Run RUNNING with no end_time and the
\* metadata as it was; a valid end on a RUNNING Run, which the Run still is
\* after that failure, succeeds when the filesystem does.
C5_InvalidEndStatus ==
    [][\A o \in Constructed, s \in EndArgs, io \in IoOutcomes, t \in Times :
          (runs[o][1].status = "RUNNING" /\ RunEnd(o, s, io, t))
              => IF s \notin Terminal
                 THEN /\ last' = "InvalidArgument:end"
                      /\ runs'[o][1].status = "RUNNING"
                      /\ runs'[o][1].end_time = None
                      /\ runs' = runs
                      /\ store' = store
                 ELSE /\ last' = IoResult(io)
                      /\ runs'[o][1].status = s]_vars

\* end with an unsupported status has been called on a RUNNING Run.
C5_Witness ==
    /\ last = "InvalidArgument:end"
    /\ \E o \in Constructed : runs[o][1].status = "RUNNING" /\ runs[o][1].end_time = None

\* The status and end_time of Run r as load_run reads them from its meta.yaml
\* in store st agree with the fields of r.
PersistedAgrees(st, r) ==
    LET loaded == LoadRun(st, r.run_id, r.experiment_id)
    IN  /\ loaded # None
        /\ "status" \in DOMAIN loaded[1].metadata
        /\ loaded[1].metadata.status = Some(r.status)
        /\ loaded[1].metadata.end_time = r.end_time

\* C6: when the construction of a Run returns, the Run has status RUNNING, a
\* start_time and no end_time, and load_run for its (run_id, experiment_id)
\* returns metadata with status RUNNING.
C6_ConstructedRunIsPersisted ==
    [][\A r \in RunIdArgs, e \in DefaultExperiment, n \in NoName, io \in IoOutcomes,
          t \in Times :
          (last' = "ok" /\ RunInit(r, e, n, io, t))
              => /\ runs'[NextObj] # None
                 /\ LET run == runs'[NextObj][1]
                        loaded == LoadRun(store', run.run_id, run.experiment_id)
                    IN  /\ run.status = "RUNNING"
                        /\ run.start_time \in Times
                        /\ run.end_time = None
                        /\ loaded # None
                        /\ "status" \in DOMAIN loaded[1].metadata
                        /\ loaded[1].metadata.status = Some("RUNNING")]_vars

\* A Run has been constructed and nothing else has happened to its directory.
C6_Witness ==
    /\ last = "ok"
    /\ \E o \in Constructed :
           /\ runs[o][1].status = "RUNNING"
           /\ LoadRun(store, runs[o][1].run_id, runs[o][1].experiment_id) # None

\* C7: after every successful construction of a Run and every successful end,
\* the status and end_time in the persisted meta.yaml of the Run equal the
\* status and end_time of the Run in memory.
C7_WriteThrough ==
    [][/\ \A r \in RunIdArgs, e \in DefaultExperiment, n \in NoName, io \in IoOutcomes,
             t \in Times :
             (last' = "ok" /\ RunInit(r, e, n, io, t))
                 => PersistedAgrees(store', runs'[NextObj][1])
       /\ \A o \in Constructed, s \in EndArgs, io \in IoOutcomes, t \in Times :
             (last' = "ok" /\ RunEnd(o, s, io, t))
                 => PersistedAgrees(store', runs'[o][1])]_vars

\* A Run has ended and its meta.yaml holds the end_time.
C7_Witness ==
    /\ last = "ok"
    /\ \E o \in Constructed :
           /\ runs[o][1].status \in Terminal
           /\ PersistedAgrees(store, runs[o][1])

\* C8: tracker.start_run fails with AlreadyActive whenever the calling thread
\* has an active run; no Run is constructed, nothing is persisted and the
\* active run is unchanged.
C8_StartRunAlreadyActive ==
    [][\A t \in Threads :
          active[t] # None
              => \A tr \in Trackers, n \in NoName, e \in NoExperiment, r \in NoRunId,
                    io \in IoOutcomes, clk \in Times :
                    TrackerStartRun(t, tr, n, e, r, io, clk)
                        => /\ last' = "AlreadyActive"
                           /\ runs' = runs
                           /\ store' = store
                           /\ active' = active]_vars

\* start_run has been refused in a thread that has an active run.
C8_Witness ==
    /\ last = "AlreadyActive"
    /\ \E t \in Threads : active[t] # None

\* C9: tracker.end_run fails with NoActiveRun when the calling thread has no
\* active run; whenever the thread has an active run, end_run ends that run
\* with status FINISHED and leaves the thread's active-run slot empty.  Stated
\* for behaviours in which the filesystem has never failed.
C9_EndRunEndsAndClears ==
    [][\A t \in Threads, tr \in Trackers, clk \in Times :
          (faults' = 0 /\ TrackerEndRun(t, tr, "ok", clk))
              => IF active[t] = None
                 THEN last' = "NoActiveRun:end_run"
                 ELSE /\ last' = "ok"
                      /\ runs'[active[t][1]][1].status = "FINISHED"
                      /\ active'[t] = None]_vars

\* C10: the active-run slot is per thread: start_run, end_run and active_run
\* in one thread never change what active_run returns in another thread (a
\* step that changes what active_run returns in thread u is no call of
\* start_run, end_run or active_run by a thread other than u).
C10_SlotPerContext ==
    [][\A u \in Threads :
          GetActiveRun(active', u) # GetActiveRun(active, u)
              => \A t \in Threads \ {u}, tr \in Trackers, io \in IoOutcomes, clk \in Times :
                    /\ \A n \in NoName, e \in NoExperiment, r \in NoRunId :
                           ~TrackerStartRun(t, tr, n, e, r, io, clk)
                    /\ ~TrackerActiveRun(t, tr)
                    /\ ~TrackerEndRun(t, tr, io, clk)]_vars

\* Two threads each hold a RUNNING active run started by the same tracker tr1
\* (the tracker whose runs go to experiment trk_eid["tr1"]).
C10_Witness ==
    /\ \A t \in Threads :
           /\ active[t] # None
           /\ runs[active[t][1]][1].status = "RUNNING"
           /\ runs[active[t][1]][1].experiment_id = trk_eid["tr1"]
    /\ active["t1"] # active["t2"]
    /\ trk_eid["tr1"] # trk_eid["global"]

\* A complete content: absence of the file, or the whole text of some write.
Complete == {None} \cup {Some(c) : c \in Contents}

\* C11: while one writer performs an atomic write to a path, a reader of the
\* target path gets the complete previous content (or no file) or the
\* complete new content, never a partially written file.
C11_ReaderSeesOldOrNew ==
    [][\A k \in WriteKeys :
          ReadFile(k)
              => /\ seen'[1].content \in Complete
                 /\ \A w \in Writers :
                        (wr[w].pc \notin Outside /\ wr[w].path = Some(ParamFile(k)))
                            => seen'[1].content \in {hist[w].before, Some(wr[w].content)}]_vars

\* A read made while the writer had written part of the temporary file of an
\* existing target returned the previous content.
C11_Witness ==
    /\ seen # None
    /\ seen[1].busy
    /\ wr["w1"].pc = "write" /\ wr["w1"].off > 0
    /\ seen[1].path = wr["w1"].path[1]
    /\ hist["w1"].before # None
    /\ seen[1].content = hist["w1"].before
    /\ seen[1].content # Some(wr["w1"].content)

\* C12: two concurrent writes of the same file give a last-write-wins result:
\* when the filesystem has not failed, the target file is at every moment
\* absent or the complete content of one write, and a writer that has returned
\* or raised leaves it so.
C12_SameKeyLastWriteWins ==
    faults = 0 => \A k \in WriteKeys : ContentAt(links, inodes, ParamFile(k)) \in Complete

\* C13: a write whose file no other writer writes during the call is
\* independent of the writes going on at the same time: unless the filesystem
\* fails it does not raise, and when it returns the file has its content.
C13_DifferentKeysIndependent ==
    [][\A w \in Writers :
          /\ (wr'[w].pc \in {"except", "raised"})
                => (hist'[w].overlap \/ hist'[w].injected)
          /\ (wr[w].pc = "replace" /\ wr'[w].pc = "returned" /\ ~hist[w].overlap)
                => ContentAt(links', inodes', wr[w].path[1]) = Some(wr[w].content)]_vars

\* Both writers have returned from calls that ran at the same time on
\* different files, and each file has the content of its writer.
C13_Witness ==
    /\ \A w \in Writers :
           /\ wr[w].pc = "returned"
           /\ hist[w].concurrent /\ ~hist[w].overlap
           /\ ContentAt(links, inodes, wr[w].path[1]) = Some(wr[w].content)
    /\ wr["w1"].path # wr["w2"].path
    /\ wr["w1"].content # wr["w2"].content

\* C14: if an atomic write fails at a step, the failure propagates to the
\* caller (the call raises), no temporary file is left behind and the target
\* has the content it had before the call (or is still absent).
C14_FailedWriteLeavesTarget ==
    \A w \in Writers :
        /\ hist[w].injected => wr[w].pc \in {"except", "raised"}
        /\ wr[w].pc = "raised"
              => /\ links[TempFile(wr[w].path[1])] = None
                 /\ ContentAt(links, inodes, wr[w].path[1]) = hist[w].before

\* A write over an existing file has failed and raised.
C14_Witness ==
    /\ wr["w1"].pc = "raised"
    /\ hist["w1"].injected
    /\ hist["w1"].before # None
    /\ hist["w1"].before # Some(wr["w1"].content)

\* What load_run returns for the parameters (kind "params") or the metrics of a
\* run in store st; the empty mapping when the run is not there.
Loaded(st, run_id, experiment_id, kind) ==
    IF LoadRun(st, run_id, experiment_id) = None THEN <<>>
    ELSE IF kind = "params" THEN LoadRun(st, run_id, experiment_id)[1].params
    ELSE LoadRun(st, run_id, experiment_id)[1].metrics

RefusedKeys ==
    {k \in StoreKeys :
        \/ k = <<>>
        \/ \E i \in 1..Len(k) : k[i] \in {"/", "\\"}
        \/ k \in {<<".">>, <<".", ".">>}
        \/ \E i \in 1..Len(k) : k[i] \in {"<", ">", ":", "\"", "|", "?", "*"}}

\* C16: in every store the program reaches, save_param and save_metric with a
\* key of one of these classes fail with InvalidKey and leave the store (its
\* directories and files) as it was, whether or not the file system would
\* have failed; and a step that ended in InvalidKey has changed nothing in the
\* store.
C16_InvalidKeyBeforeIo ==
    /\ Cardinality(RefusedKeys) >= 12
    /\ \A r \in StoreRuns, e \in DefaultExperiment, k \in RefusedKeys, v \in RefusedValues,
          io \in StoreIo :
          /\ SaveParam(store, r, e, k, v, io, now) = [res |-> "InvalidKey", store |-> store]
          /\ SaveMetric(store, r, e, k, v, io, now) = [res |-> "InvalidKey", store |-> store]

\* A save has just failed with InvalidKey in a store that has not even the
\* run's directory.
C16_Witness ==
    /\ last = "InvalidKey"
    /\ result = None
    /\ \A d \in DOMAIN store : ~store[d].exists

\* The mapping m with key k set to v.
WithKey(m, k, v) == [x \in (DOMAIN m) \cup {k} |-> IF x = k THEN v ELSE m[x]]

\* C17: a successful save_param (save_metric) of key k and value v changes
\* what load_run returns in exactly this: params (metrics) maps k to v; every
\* other key keeps its value, no other key appears, and a key already there is
\* not added again.  So after any sequence of saves each key has the value of
\* its latest save.
C17_OverwritePerKey ==
    [][(last' = "ok" /\ result' = None)
          => \A r \in StoreRuns, e \in DefaultExperiment, k \in ValidKeys, v \in StoreValues :
                /\ StoreSaveParam(r, e, k, v, "ok", now)
                      => /\ Loaded(store', r, e, "params")
                              = WithKey(Loaded(store, r, e, "params"), k, v)
                         /\ Loaded(store', r, e, "metrics") = Loaded(store, r, e, "metrics")
                /\ StoreSaveMetric(r, e, k, v, "ok", now)
                      => /\ Loaded(store', r, e, "metrics")
                              = WithKey(Loaded(store, r, e, "metrics"), k, v)
                         /\ Loaded(store', r, e, "params") = Loaded(store, r, e, "params")]_vars

\* Two saves at least have succeeded, the last one just now, and the run has
\* two parameters of different values.
C17_Witness ==
    /\ last = "ok"
    /\ result = None
    /\ DOMAIN Loaded(store, "a", 0, "params") = ValidKeys
    /\ Loaded(store, "a", 0, "params")[<<"l", "r">>] = PyInt(1)
    /\ Loaded(store, "a", 0, "params")[<<".", "a", ".">>] = PyStr(<<"1">>)

\* The Run object that was constructed with run id rid.
RunOf(rid) == runs[CHOOSE o \in Constructed : runs[o][1].run_id = rid][1]
\* The runs of list s were created at distinct times (the time of creation is
\* the start_time the constructor reads from the clock).
DistinctCreation(s) ==
    \A i, j \in 1..Len(s) : i # j => RunOf(s[i]).start_time # RunOf(s[j]).start_time
\* List s is in strictly reverse creation order.
ReverseCreation(s) ==
    \A i, j \in 1..Len(s) : i < j => RunOf(s[i]).start_time > RunOf(s[j]).start_time

C20_ExitEndsRun ==
    [][\A o \in Constructed, exc \in BOOLEAN, io \in IoOutcomes, t \in Times :
          RunExit(o, exc, io, t)
              => IF runs[o][1].status = "RUNNING"
                 THEN /\ runs'[o][1].status = IF exc THEN "FAILED" ELSE "FINISHED"
                      /\ io = "ok" => /\ last' = "ok"
                                      /\ PersistedAgrees(store', runs'[o][1])
                 ELSE /\ last' = "ok"
                      /\ runs'[o] = runs[o]
                      /\ store' = store]_vars

\* A Run has ended FAILED at the later reading of the clock, nothing was
\* raised, and its persisted metadata agree.
C20_Witness ==
    \E o \in Constructed :
        /\ runs[o][1].status = "FAILED"
        /\ runs[o][1].end_time = Some(1)
        /\ last = "ok"
        /\ faults = 0
        /\ PersistedAgrees(store, runs[o][1])

\* C21: after a Tracker scope is left, on any exit path and whatever the body
\* did with the run, the run started on entry is in a terminal state and is no
\* longer the thread's active run.  Stated for behaviours in which the
\* filesystem has never failed.
C21_ScopeExitEndsAndClears ==
    [][\A t \in Threads, exc \in BOOLEAN :
          (tscope[t] # <<>> /\ faults' = 0 /\ TrackerExit(t, exc, "ok", now))
              => LET o == Head(tscope[t]).obj
                 IN  /\ runs'[o][1].status \in Terminal
                     /\ active'[t] # Some(o)]_vars

\* C22: the status with which a Tracker scope ends its run follows from how
\* the scope is left: FAILED when it is left by a propagating failure, FINISHED
\* when it is left normally.  Stated for the exits that find the scope's run
\* RUNNING in the thread's slot and in which the filesystem does not fail.
C22_ScopeExitStatus ==
    [][\A t \in Threads, exc \in BOOLEAN :
          (/\ tscope[t] # <<>>
           /\ active[t] = Some(Head(tscope[t]).obj)
           /\ IsRunning(runs[Head(tscope[t]).obj][1])
           /\ faults' = 0
           /\ TrackerExit(t, exc, "ok", now))
              => runs'[Head(tscope[t]).obj][1].status = IF exc THEN "FAILED" ELSE "FINISHED"]_vars

\* C23: load_run fails with NotFound exactly when the run directory of
\* (run_id, experiment_id) does not exist; for an existing run directory it
\* succeeds, and the metadata it returns is the empty mapping when the
\* directory holds no meta.yaml.
C23_LoadRunNotFound ==
    [][\A r \in LoadRuns, e \in DefaultExperiment :
          StoreLoadRun(r, e)
              => LET dir == store[GetRunDir(r, e)]
                 IN  /\ (last' = "NotFound") <=> ~dir.exists
                     /\ dir.exists
                            => /\ last' = "ok"
                               /\ result' # None
                               /\ dir.meta = None => result'[1].metadata = <<>>]_vars

\* A load_run has returned the records of a run directory that holds a
\* parameter file and no meta.yaml: the metadata are the empty mapping.
C23_Witness ==
    /\ last = "ok"
    /\ result # None
    /\ \E r \in LoadRuns, e \in DefaultExperiment :
           /\ store[GetRunDir(r, e)].exists
           /\ store[GetRunDir(r, e)].meta = None
           /\ result = LoadRun(store, r, e)
           /\ result[1].metadata = <<>>
           /\ DOMAIN result[1].params # {}

\* C24: list_runs on an experiment for which nothing was ever stored returns
\* the empty sequence; it does not fail and it creates nothing in the store.
C24_ListRunsOfNothing ==
    [][\A e \in Experiments :
          (~ExperimentExists(store, e) /\ StoreListRuns(e))
              => /\ last' = "ok"
                 /\ result' = Some(<<>>)
                 /\ store' = store]_vars

\* list_runs has returned the empty sequence while one experiment holds a run
\* and for the other nothing was ever stored.
C24_Witness ==
    /\ last = "ok"
    /\ result = Some(<<>>)
    /\ \E e \in Experiments : RunDirs(store, e) # {}
    /\ \E e \in Experiments : \A r \in RunIds : store[GetRunDir(r, e)] = NoDir

\* C27: a save_metadata that succeeds writes the run_id and the experiment_id
\* of the call into meta.yaml, whatever run_id or experiment_id entries the
\* caller's mapping has; the other entries are written as given, and the
\* caller's mapping is after the call what it was before.
C27_SaveMetadataForcesIds ==
    [][\A r \in MetaRuns, e \in Experiments, m \in Metadatas :
          (last' = "ok" /\ StoreSaveMetadata(r, e, m, "ok", now))
              => LET loaded == LoadRun(store', r, e)
                 IN  /\ loaded # None
                     /\ loaded[1].metadata.run_id = Some(r)
                     /\ loaded[1].metadata.experiment_id = Some(e)
                     /\ loaded[1].metadata.name = m.name
                     /\ loaded[1].metadata.status = Some(m.status)
                     /\ result' = Some(m)]_vars

\* The last call saved, for run "a" of experiment 0, a mapping that says
\* run_id "c" and experiment_id 1; meta.yaml of run "a" says "a" and 0.
C27_Witness ==
    /\ last = "ok"
    /\ result # None
    /\ DOMAIN result[1] = {"name", "status", "start_time", "end_time", "run_id", "experiment_id"}
    /\ result[1].run_id = "c"
    /\ result[1].experiment_id = 1
    /\ store[GetRunDir("a", 0)].meta # None
    /\ YamlLoad(store[GetRunDir("a", 0)].meta[1]).run_id = Some("a")
    /\ YamlLoad(store[GetRunDir("a", 0)].meta[1]).experiment_id = Some(0)
    /\ \A d \in DOMAIN store : d # GetRunDir("a", 0) => store[d] = NoDir

\* C28: the facade functions log_param, log_metric and end_run, called by a
\* thread that has no active run, fail with NoActiveRun and write nothing to
\* the store, whatever the key, the value and the state of the filesystem.
C28_FacadeNoActiveRun ==
    [][\A t \in Threads, io \in IoOutcomes :
          active[t] = None
              => /\ \A k \in Keys, v \in Values :
                        /\ FacadeLogParam(t, k, v, io, now)
                               => last' = "NoActiveRun:log_param" /\ store' = store
                        /\ FacadeLogMetric(t, k, v, io, now)
                               => last' = "NoActiveRun:log_metric" /\ store' = store
                 /\ FacadeEndRun(t, io, now)
                        => last' = "NoActiveRun:end_run" /\ store' = store]_vars

\* A facade call has failed with NoActiveRun in a thread without an active run
\* while another thread has a RUNNING active run.
C28_Witness ==
    /\ last \in NoActiveRun
    /\ \E t, u \in Threads :
           /\ active[t] = None
           /\ active[u] # None
           /\ IsRunning(runs[active[u][1]][1])

\* Thread t can make no progress with the tracker: start_run fails with
\* AlreadyActive because the slot is occupied, and end_run fails although the
\* filesystem works, because the run in the slot refuses to end.
Stuck(t) ==
    LET a == GetActiveRun(active, t)
    IN  /\ a # None
        /\ RunEndCall(store, runs[a[1]][1], "FINISHED", "ok", now).res # "ok"

\* A stuck thread stays stuck under its own start_run and end_run calls on
\* any tracker: both fail and change nothing.
StuckForever ==
    [][\A t \in Threads, tr \in Trackers, io \in IoOutcomes :
          (/\ Stuck(t)
           /\ \/ TrackerEndRun(t, tr, io, now)
              \/ \E n \in NoName, e \in NoExperiment, r \in NoRunId :
                    TrackerStartRun(t, tr, n, e, r, io, now))
              => /\ Stuck(t)'
                 /\ last' # "ok"
                 /\ UNCHANGED <<runs, store, active, current>>]_vars

\* C29: from every reachable state a thread can get back, by end_run and
\* start_run on the tracker alone, to a state where start_run succeeds: no
\* thread is ever in a state where start_run fails with AlreadyActive and
\* end_run fails as well, in particular not after its active run was ended
\* with run.end().  Stated for the states reached without any failure of the
\* filesystem.
C29_NeverStuck ==
    faults = 0 => \A t \in Threads : ~Stuck(t)

\* C30: the run held in a thread's active-run slot always has status RUNNING:
\* a FINISHED or FAILED run is never a thread's active run.  Stated for the
\* states reached without any failure of the filesystem.
C30_ActiveRunIsRunning ==
    faults = 0
        => \A t \in Threads :
               GetActiveRun(active, t) # None
                   => runs[GetActiveRun(active, t)[1]][1].status = "RUNNING"

\* The name and the version that the meta.yaml of run rid of experiment e
\* holds.
PersistedName(e, rid) == YamlLoad(store[GetRunDir(rid, e)].meta[1]).name
PersistedVersion(e, rid) == versions[GetRunDir(rid, e)]
\* The runs of experiment e that have a meta.yaml.
Persisted(e) == {rid \in RunIds : store[GetRunDir(rid, e)].meta # None}
\* res is the data of run rid of experiment e, and no run of M was modified
\* later than rid: rid can be the first run of M in list_runs order.
IsFirstOf(res, e, rid, M) ==
    /\ rid \in M
    /\ \A q \in M : MTime(store, e, q) <= MTime(store, e, rid)
    /\ res # None
    /\ res[1].metadata.run_id = Some(rid)
    /\ res[1].metadata.name = PersistedName(e, rid)
    /\ res[1].metadata.version = PersistedVersion(e, rid)
    /\ res[1].params = LoadRun(store, rid, e)[1].params
    /\ res[1].metrics = LoadRun(store, rid, e)[1].metrics

\* C25: tracker.get_run_by_version(name, version) does not fail; it returns
\* absent when no run of the tracker's experiment has both that name and that
\* version in its persisted metadata, and otherwise the data of the first
\* such run in list_runs order (no such run was modified later).
C25_GetRunByVersion ==
    [][\A tr \in ListTrackers, n \in Names, v \in Versions :
          TrackerGetRunByVersion(tr, n, v)
              => LET e == trk_eid[tr]
                     M == {rid \in Persisted(e) : /\ PersistedName(e, rid) = Some(n)
                                                  /\ PersistedVersion(e, rid) = Some(v)}
                 IN  /\ last' = "ok"
                     /\ IF M = {} THEN result' = None
                        ELSE \E rid \in M : IsFirstOf(result', e, rid, M)]_vars

\* A lookup has returned a run of name "m" and version "v1" while an older run
\* has the same name and version, and the thread of neither has an active run.
C25_Witness ==
    /\ last = "ok"
    /\ result # None
    /\ result[1].metadata.version = Some("v1")
    /\ \E e \in Experiments : \E rid, q \in Persisted(e) :
           /\ result[1].metadata.run_id = Some(rid)
           /\ PersistedName(e, rid) = Some("m")
           /\ PersistedName(e, q) = Some("m")
           /\ PersistedVersion(e, q) = Some("v1")
           /\ MTime(store, e, q) < MTime(store, e, rid)
    /\ \A t \in Threads : active[t] = None

C31_FacadeStartRunExperiment ==
    [][\A t \in Threads, io \in IoOutcomes :
          (FacadeStartRunCall(t, io, now) /\ last' = "ok")
              => runs'[active'[t][1]][1].experiment_id = calls[t][1].experiment_id]_vars

\* C32: when two threads end one Run concurrently and both pass the check of
\* the status, both calls succeed, and when the later of the two metadata
\* writes has been made the status, the end_time and the persisted metadata
\* of the Run are those of the call that made it.  Stated for writes that
\* succeed.
C32_LastEndWins ==
    [][\A t \in Threads :
          (/\ RunEndSave(t, "ok")
           /\ faults' = 0
           /\ \A u \in Threads \ {t} : Idle(u))
              => LET r == runs'[calls[t][1].obj][1]
                 IN  /\ last' = "ok"
                     /\ r.status = calls[t][1].status
                     /\ r.end_time = calls[t][1].end_time
                     /\ PersistedAgrees(store', r)]_vars

\* C33: when log_param or log_metric races with end on one Run, no parameter
\* or metric record of the run is written once the metadata of the run has
\* been persisted with a terminal status.
C33_NoRecordAfterTerminal ==
    [][\A t \in Threads, io \in IoOutcomes, clk \in Times :
          (RunLogSave(t, io, clk) /\ FilesOf(store') # FilesOf(store))
              => LET r == runs[calls[t][1].obj][1]
                 IN  LoadRun(store, r.run_id, r.experiment_id)[1].metadata.status
                         = Some("RUNNING")]_vars

\* The status that the meta.yaml of run directory d holds.
PersistedStatus(st, d) == YamlLoad(st[d].meta[1]).status

\* C34: once the persisted metadata of a run id have a terminal status, no
\* operation, starting or constructing a run with that run id included, makes
\* the persisted status of that run id RUNNING again.
C34_PersistedTerminalStays ==
    [][\A d \in DOMAIN store :
          (store[d].meta # None /\ PersistedStatus(store, d) \in {Some(x) : x \in Terminal})
              => PersistedStatus(store', d) # Some("RUNNING")]_vars

\* C35: when the metadata write inside end fails, end fails as a whole: the
\* Run still has status RUNNING and no end_time, and so still agrees with the
\* persisted metadata.
C35_FailedEndChangesNothing ==
    [][\A o \in Objs, s \in EndArgs, io \in IoOutcomes, t \in Times :
          (last' = "IOFailure" /\ o \in Constructed /\ IsRunning(runs[o][1])
           /\ RunEnd(o, s, io, t))
              => /\ runs'[o][1].status = "RUNNING"
                 /\ runs'[o][1].end_time = None
                 /\ PersistedAgrees(store', runs'[o][1])]_vars

\* C36: when persisting the metadata of the new run fails during
\* tracker.start_run, the failure propagates and the slot of the thread stays
\* empty; a run is put into a slot only when its metadata are persisted.
C36_StartRunFailureLeavesSlot ==
    [][\A t \in Threads, tr \in Trackers, io \in IoOutcomes :
          (\E n \in NoName, e \in NoExperiment, r \in NoRunId :
               TrackerStartRun(t, tr, n, e, r, io, now))
              => /\ (io # "ok" /\ active[t] = None)
                        => /\ last' = "IOFailure"
                           /\ active' = active
                           /\ current' = current
                           /\ runs' = runs
                 /\ active'[t] # active[t]
                        => /\ active'[t] # None
                           /\ PersistedAgrees(store', runs'[active'[t][1]][1])]_vars

\* A start_run has failed on the filesystem: no Run was made, no slot is
\* occupied, and the run directory it made holds no meta.yaml.
C36_Witness ==
    /\ last = "IOFailure"
    /\ Constructed = {}
    /\ \A t \in Threads : active[t] = None
    /\ \E d \in DOMAIN store : store[d].exists /\ store[d].meta = None

\* The files of directory listing g other than the file called name are the
\* files of f, with the same content.
SameButFor(f, g, name) ==
    /\ (DOMAIN g) \ {name} = (DOMAIN f) \ {name}
    /\ \A x \in (DOMAIN f) \ {name} : g[x] = f[x]

\* C37: a log_param or log_metric that succeeds on a RUNNING run changes only
\* the record of its key: the status and end_time of every Run, every
\* meta.yaml and its modification time (hence every list_runs result), the
\* other records of the run and all of every other run are as before.
C37_LogChangesOneRecord ==
    [][\A t \in Threads, clk \in LogTimes :
          (/\ last' = "ok"
           /\ RunLogSave(t, "ok", clk)
           /\ IsRunning(runs[calls[t][1].obj][1]))
              => LET c == calls[t][1]
                     r == runs[c.obj][1]
                     d == GetRunDir(r.run_id, r.experiment_id)
                     name == JsonName(c.key)
                 IN  /\ runs' = runs
                     /\ active' = active
                     /\ \A x \in DOMAIN store : x # d => store'[x] = store[x]
                     /\ store'[d].meta = store[d].meta
                     /\ store'[d].mtime = store[d].mtime
                     /\ \A e \in Experiments : ListRuns(store', e) = ListRuns(store, e)
                     /\ IF c.op = "log_param"
                        THEN /\ name \in DOMAIN store'[d].params
                             /\ SameButFor(store[d].params, store'[d].params, name)
                             /\ store'[d].metrics = store[d].metrics
                        ELSE /\ name \in DOMAIN store'[d].metrics
                             /\ SameButFor(store[d].metrics, store'[d].metrics, name)
                             /\ store'[d].params = store[d].params]_vars

\* A log has succeeded at a later reading of the clock than the runs were
\* started at; two runs are RUNNING and each holds a record.
C37_Witness ==
    /\ last = "ok"
    /\ now > 0
    /\ \A t \in Threads : Idle(t) /\ active[t] # None /\ IsRunning(runs[active[t][1]][1])
    /\ \A o \in Constructed :
           LET d == GetRunDir(runs[o][1].run_id, runs[o][1].experiment_id)
           IN  /\ store[d].mtime = Some(0)
               /\ DOMAIN store[d].params # {}
    /\ \E o \in Constructed :
           DOMAIN store[GetRunDir(runs[o][1].run_id, runs[o][1].experiment_id)].metrics # {}

\* Every list of the set L holds run id rid; some list of L does.
InAll(L, rid) == \A s \in L : \E i \in 1..Len(s) : s[i] = rid
InSome(L, rid) == \E s \in L : \E i \in 1..Len(s) : s[i] = rid

\* C38: list_runs(e) returns exactly the runs of e whose metadata were saved:
\* nothing is listed at first, and after every step a run is in the lists
\* that list_runs(e) can return if and only if it was before or the step is a
\* save_metadata for it that succeeded; so no save_param or save_metric makes
\* a run listed.  A load_run of a run directory that is not listed succeeds
\* with empty metadata.
C38_ListedIffMetadataSaved ==
    /\ \A r \in RunIds, e \in Experiments : ~InSome(ListRuns(store, e), r)
    /\ [][/\ \A e \in Experiments :
                LET before == ListRuns(store, e)
                    after == ListRuns(store', e)
                IN  \A r \in MetaRuns :
                        /\ InAll(after, r) <=>
                               \/ InAll(before, r)
                               \/ /\ last' = "ok"
                                  /\ \E m \in RunEntries : StoreSaveMetadata(r, e, m, "ok", now)
                        /\ InSome(after, r) <=> InAll(after, r)
          /\ \A r \in MetaRuns, e \in DefaultExperiment :
                (/\ store[GetRunDir(r, e)].exists
                 /\ ~InSome(ListRuns(store, e), r)
                 /\ StoreLoadRun(r, e))
                    => /\ last' = "ok"
                       /\ result' # None
                       /\ result'[1].metadata = <<>>]_vars

\* list_runs has returned one run of an experiment that holds two run
\* directories: the other one holds a record and no meta.yaml.
C38_Witness ==
    /\ last = "ok"
    /\ \E e \in Experiments, r, q \in MetaRuns :
           /\ r # q
           /\ result # None
           /\ Cardinality(DOMAIN result[1]) = 1
           /\ result = Some(<<r>>)
           /\ ListRuns(store, e) = {<<r>>}
           /\ store[GetRunDir(q, e)].exists
           /\ store[GetRunDir(q, e)].meta = None
           /\ DOMAIN store[GetRunDir(q, e)].params # {}

\* C39: a start_run by a thread whose slot holds a run fails with
\* AlreadyActive and starts nothing, through whichever tracker object or the
\* facade the call is made and whichever of them started the run in the slot;
\* and every RUNNING run that was started is in the slot of exactly one
\* thread, so no thread has two of them.
C39_OneSlotForAllTrackers ==
    /\ [](\A o \in Constructed :
              IsRunning(runs[o][1])
                  => Cardinality({t \in Threads : active[t] = Some(o)}) = 1)
    /\ [][\A t \in Threads :
              (/\ active[t] # None
               /\ \E io \in StoreIo :
                      \/ \E tr \in Trackers : TrackerStartRun(t, tr, None, None, None, io, now)
                      \/ \E e \in Experiments : FacadeStartRun(t, None, e, None, io, now))
                  => /\ last' = "AlreadyActive"
                     /\ UNCHANGED <<runs, store, active, current>>]_vars

\* The facade's start_run for experiment 1 has failed in a thread whose slot
\* holds a RUNNING run started through the tracker object, the only run there
\* is: the file system has not failed and the facade's tracker has started
\* nothing.
C39_Witness ==
    /\ last = "AlreadyActive"
    /\ faults = 0
    /\ trk_eid["global"] = 1
    /\ current["global"] = None
    /\ Cardinality(Constructed) = 1
    /\ \E t \in Threads, o \in Constructed :
           /\ active[t] = Some(o)
           /\ current["tr1"] = Some(o)
           /\ IsRunning(runs[o][1])

====
